---- MODULE Spec2Model ----
(***************************************************************************)
(* Znote: the REST API (auth middleware, auth / notes / tasks / ideas      *)
(* controllers over the database tables) and the browser client (auth      *)
(* store, the three dual-mode content stores, the login/register page).    *)
(*                                                                         *)
(* Spec        the API with a working database, called by any holder of a  *)
(*             token issued by the server.                                 *)
(* SpecAuth    the API called with every shape of Authorization header.    *)
(* SpecClient  one browser client driving the API.                         *)
(* SpecBulk    the bulk import routes with every shape of body.            *)
(* SpecStores  the content stores with their API calls in flight.          *)
(* SpecSearch  the ideas search over tagged ideas.                         *)
(* SpecCreate  the create routes with missing, empty and full bodies.      *)
(* SpecTitles  create, update and bulk import with empty titles.           *)
(* SpecRace    handlers that interleave between their check and write.     *)
(* SpecRegister  register and login with their API calls in flight.        *)
(* SpecList    the list routes over rows of several users.                 *)
(* SpecFail    every handler with a database call that fails.              *)
(* SpecSame    create and bulk import given the same record.               *)
(* SpecAuthStore  the operations of the auth store in any sequence.        *)
(***************************************************************************)
EXTENDS Integers, Sequences, FiniteSets, TLC

\* Bounds of the model.
MaxRows == 2
MaxTables == 1
MaxLocal == 2
MaxSteps == 5

VARIABLES
  db,       \* the database: tables users, notes, tasks, ideas; nextId, the next
            \* identifier it assigns to a content row; now, its clock
  req,      \* the request the server handled last
  res,      \* the response it sent
  ran,      \* the handler that ran for it ("none": the router answered)
  reqUser,  \* req.userId the middleware attached (0: never attached)
  handlers, \* the requests whose handler was followed await by await
  auth,     \* useAuthStore: user, token, isAuthenticated, isGuest
  lsToken,  \* localStorage item znote_token
  cNotes,   \* useNotesStore.notes
  cTasks,   \* useTasksStore.tasks
  cIdeas,   \* useIdeasStore.ideas
  cnow,     \* the browser's clock
  result,   \* what the page handler that ran last got back from its store
  kept,     \* the guest lists held when the last registration was made
  steps,    \* how many handlers of the client have run
  loading,  \* the loading flag of each content store
  error,    \* the error message of each content store
  flight    \* the API calls of the content stores that have not returned yet

serverVars == <<db, req, res, ran, reqUser, handlers>>
storeVars == <<auth, lsToken, cNotes, cTasks, cIdeas, cnow, result, kept, loading, error, flight>>
clientVars == <<auth, lsToken, cNotes, cTasks, cIdeas, cnow, result, kept, steps,
               loading, error, flight>>
vars == <<db, req, res, ran, reqUser, handlers,
          auth, lsToken, cNotes, cTasks, cIdeas, cnow, result, kept, steps,
          loading, error, flight>>

----------------------------------------------------------------------------
\* JavaScript values

\* JSON null / SQL NULL
Null == "NULL"

\* f !== undefined
Has(b, f) == f \in DOMAIN b

\* a string-valued field is truthy
TruthyStr(b, f) == Has(b, f) /\ b[f] # "" /\ b[f] # Null

\* a boolean-valued field is truthy
TruthyBool(b, f) == Has(b, f) /\ b[f] = TRUE

\* Array.isArray(v): a JSON array is a sequence, indexed from 1 here; a JSON
\* object with the key "0", such as {"0": x}, is the function 0 :> x
IsArray(v) == \A k \in DOMAIN v : k >= 1

\* new Date(s), as the ISO string the database returns it
ToDate(s) ==
  CASE s = "2024-01-01" -> "2024-01-01T00:00:00.000Z"
    [] s = "2024-02-01" -> "2024-02-01T00:00:00.000Z"
    [] OTHER -> s

\* position of a stored date in ascending order (NULL sorts last)
DateRank(d) ==
  CASE d = "2024-01-01T00:00:00.000Z" -> 1
    [] d = "2024-02-01T00:00:00.000Z" -> 2
    [] OTHER -> 9

\* the sequences that list every element of S once
Perms(S) ==
  {s \in [1..Cardinality(S) -> S] :
     \A i, j \in 1..Cardinality(S) : i # j => s[i] # s[j]}

\* the results an ORDER BY can return: rows tied on the keys come in any order
OrderedBy(S, before) ==
  {s \in Perms(S) :
     \A i, j \in 1..Cardinality(S) : i < j => <<s[j], s[i]>> \notin before}

----------------------------------------------------------------------------
\* Responses

NoUser == [id |-> 0, email |-> "", name |-> Null]
NoToken == [userId |-> 0, email |-> "", sig |-> "none", expired |-> FALSE]

\* res.status(s).json({error: e})
Err(s, e) ==
  [status |-> s, error |-> e, rows |-> <<>>, count |-> 0,
   user |-> NoUser, token |-> NoToken]

\* res.status(s).json({<entity> | <entities>})
Rows(s, rs) ==
  [status |-> s, error |-> "", rows |-> rs, count |-> 0,
   user |-> NoUser, token |-> NoToken]

\* res.status(201).json({count})
Count(s, n) ==
  [status |-> s, error |-> "", rows |-> <<>>, count |-> n,
   user |-> NoUser, token |-> NoToken]

\* res.status(s).json({user, token})
Session(s, u, t) ==
  [status |-> s, error |-> "", rows |-> <<>>, count |-> 0,
   user |-> u, token |-> t]

\* what a handler did: its response and the database it left
Out(r, d) == [res |-> r, db |-> d]

NoRequest == [route |-> "none"]

----------------------------------------------------------------------------
\* Tokens and the auth middleware

\* jwt.sign({userId, email}, JWT_SECRET, {expiresIn: '7d'})
jwtSign(u) == [userId |-> u.id, email |-> u.email, sig |-> "valid", expired |-> FALSE]

\* jwt.verify(token, JWT_SECRET): the signature is checked before the expiry
jwtVerify(tok) ==
  CASE tok.sig # "valid" -> "JsonWebTokenError"
    [] tok.expired -> "TokenExpiredError"
    [] OTHER -> "ok"

Deny(s, e) == [next |-> FALSE, res |-> Err(s, e), userId |-> 0, userEmail |-> ""]

\* a middleware that reads the token's claims without verifying it (jwt.decode)
authMiddlewareDecode(hdr) ==
  IF hdr = <<>> THEN Deny(401, "No authorization header provided")
  ELSE IF Len(hdr) < 2 THEN Deny(401, "No token provided")
  ELSE [next |-> TRUE, res |-> Err(0, ""),
        userId |-> hdr[2].userId, userEmail |-> hdr[2].email]

\* hdr is req.headers.authorization split at the spaces; <<>> is no header
authMiddleware(hdr) ==
  IF hdr = <<>> THEN Deny(401, "No authorization header provided")
  ELSE IF Len(hdr) < 2 THEN Deny(401, "No token provided")
  ELSE LET v == jwtVerify(hdr[2]) IN
       CASE v = "ok" ->
              [next |-> TRUE, res |-> Err(0, ""),
               userId |-> hdr[2].userId, userEmail |-> hdr[2].email]
         [] v = "JsonWebTokenError" -> Deny(401, "Invalid token")
         [] v = "TokenExpiredError" -> Deny(401, "Token expired")
         [] OTHER -> Deny(500, "Authentication failed")

----------------------------------------------------------------------------
\* Notes controller

\* an identifier the database generates
SrvId(n) == <<"srv", n>>

\* create / createMany: the rows get their createdAt from the database clock
Insert(db0, t, new) ==
  [db0 EXCEPT ![t] = @ \cup new,
              !.nextId = @ + Cardinality(new),
              !.now = @ + 1]

\* where: {userId}
OwnedBy(rows, uid) == {r \in rows : r.userId = uid}

\* a lookup by identifier alone: where: {id}
FindFirstById(rows, id, uid) == {r \in rows : r.id = id}

\* where: {id, userId}
FindFirst(rows, id, uid) == {r \in rows : r.id = id /\ r.userId = uid}

\* orderBy: [{isPinned: 'desc'}, {createdAt: 'desc'}]
NoteBefore(a, b) ==
  \/ a.isPinned /\ ~b.isPinned
  \/ a.isPinned = b.isPinned /\ a.createdAt > b.createdAt

\* the pairs of rows the ORDER BY puts in this order
NoteOrder(rows) == {p \in rows \X rows : NoteBefore(p[1], p[2])}

getNotes(db0, uid, r) ==
  IF r.fail THEN {Out(Err(500, "Failed to fetch notes"), db0)}
  ELSE {Out(Rows(200, s), db0) :
          s \in OrderedBy(OwnedBy(db0.notes, uid), NoteOrder(OwnedBy(db0.notes, uid)))}

getNoteById(db0, uid, r) ==
  IF r.fail THEN {Out(Err(500, "Failed to fetch note"), db0)}
  ELSE LET found == FindFirst(db0.notes, r.id, uid) IN
       IF found = {} THEN {Out(Err(404, "Note not found"), db0)}
       ELSE {Out(Rows(200, <<n>>), db0) : n \in found}

\* a create that refuses a missing field but takes an empty one
createNoteAcceptsEmpty(db0, uid, r) ==
  IF ~Has(r.body, "title") \/ ~Has(r.body, "content")
  THEN {Out(Err(400, "Title and content are required"), db0)}
  ELSE IF r.fail THEN {Out(Err(500, "Failed to create note"), db0)}
  ELSE LET note == [id |-> SrvId(db0.nextId),
                    title |-> r.body.title,
                    content |-> r.body.content,
                    color |-> IF TruthyStr(r.body, "color") THEN r.body.color ELSE "#ffffff",
                    isPinned |-> TruthyBool(r.body, "isPinned"),
                    userId |-> uid,
                    createdAt |-> db0.now]
       IN {Out(Rows(201, <<note>>), Insert(db0, "notes", {note}))}

createNote(db0, uid, r) ==
  IF ~TruthyStr(r.body, "title") \/ ~TruthyStr(r.body, "content")
  THEN {Out(Err(400, "Title and content are required"), db0)}
  ELSE IF r.fail THEN {Out(Err(500, "Failed to create note"), db0)}
  ELSE LET note == [id |-> SrvId(db0.nextId),
                    title |-> r.body.title,
                    content |-> r.body.content,
                    color |-> IF TruthyStr(r.body, "color") THEN r.body.color ELSE "#ffffff",
                    isPinned |-> TruthyBool(r.body, "isPinned"),
                    userId |-> uid,
                    createdAt |-> db0.now]
       IN {Out(Rows(201, <<note>>), Insert(db0, "notes", {note}))}

\* data: {...(title !== undefined && {title}), ...}
\* an update that writes every content field, the absent ones as null
NoteDataAll(old, b) ==
  [old EXCEPT !.title = IF Has(b, "title") THEN b.title ELSE Null,
              !.content = IF Has(b, "content") THEN b.content ELSE Null,
              !.color = IF Has(b, "color") THEN b.color ELSE Null,
              !.isPinned = IF Has(b, "isPinned") THEN b.isPinned ELSE FALSE]

NoteData(old, b) ==
  [old EXCEPT !.title = IF Has(b, "title") THEN b.title ELSE @,
              !.content = IF Has(b, "content") THEN b.content ELSE @,
              !.color = IF Has(b, "color") THEN b.color ELSE @,
              !.isPinned = IF Has(b, "isPinned") THEN b.isPinned ELSE @]

updateNote(db0, uid, r) ==
  IF r.fail THEN {Out(Err(500, "Failed to update note"), db0)}
  ELSE IF FindFirst(db0.notes, r.id, uid) = {}
  THEN {Out(Err(404, "Note not found"), db0)}
  ELSE {Out(Rows(200, <<NoteData(old, r.body)>>), [db0 EXCEPT !.notes = (@ \ {old}) \cup {NoteData(old, r.body)}]) :
          old \in {n \in db0.notes : n.id = r.id}}

\* a delete that answers success for a row that is not there
deleteNoteIdempotent(db0, uid, r) ==
  IF r.fail THEN {Out(Err(500, "Failed to delete note"), db0)}
  ELSE {Out(Rows(200, <<>>), [db0 EXCEPT !.notes = {n \in @ : n.id # r.id \/ n.userId # uid}])}

deleteNote(db0, uid, r) ==
  IF r.fail THEN {Out(Err(500, "Failed to delete note"), db0)}
  ELSE IF FindFirst(db0.notes, r.id, uid) = {}
  THEN {Out(Err(404, "Note not found"), db0)}
  ELSE {Out(Rows(200, <<>>), [db0 EXCEPT !.notes = {n \in @ : n.id # r.id}])}

\* notes.map(note => ({title, content, color || '#ffffff', isPinned || false, userId}))
\* rows that all get one identifier, so that equal records collapse into one
NoteWithOneId(db0, uid, n, i) ==
  [id |-> SrvId(db0.nextId),
   title |-> n.title,
   content |-> n.content,
   color |-> IF TruthyStr(n, "color") THEN n.color ELSE "#ffffff",
   isPinned |-> TruthyBool(n, "isPinned"),
   userId |-> uid,
   createdAt |-> db0.now]

NoteWithUserId(db0, uid, n, i) ==
  [id |-> SrvId(db0.nextId + i - 1),
   title |-> n.title,
   content |-> n.content,
   color |-> IF TruthyStr(n, "color") THEN n.color ELSE "#ffffff",
   isPinned |-> TruthyBool(n, "isPinned"),
   userId |-> uid,
   createdAt |-> db0.now]

bulkCreateNotes(db0, uid, r) ==
  IF ~Has(r.body, "notes") \/ ~IsArray(r.body.notes) \/ Len(r.body.notes) = 0
  THEN {Out(Err(400, "Notes array is required"), db0)}
  ELSE IF r.fail \/ \E i \in 1..Len(r.body.notes) :
                       ~Has(r.body.notes[i], "title") \/ ~Has(r.body.notes[i], "content")
  THEN {Out(Err(500, "Failed to sync notes"), db0)}
  ELSE LET created == {NoteWithUserId(db0, uid, r.body.notes[i], i) : i \in 1..Len(r.body.notes)}
       IN {Out(Count(201, Cardinality(created)), Insert(db0, "notes", created))}

----------------------------------------------------------------------------
\* Tasks controller

\* an order of the tasks by creation time alone
TaskBeforeNewest(a, b) == a.createdAt > b.createdAt

\* orderBy: [{completed: 'asc'}, {dueDate: 'asc'}, {createdAt: 'desc'}]
TaskBefore(a, b) ==
  \/ ~a.completed /\ b.completed
  \/ a.completed = b.completed /\ DateRank(a.dueDate) < DateRank(b.dueDate)
  \/ a.completed = b.completed /\ DateRank(a.dueDate) = DateRank(b.dueDate)
       /\ a.createdAt > b.createdAt

TaskOrder(rows) == {p \in rows \X rows : TaskBefore(p[1], p[2])}

getTasks(db0, uid, r) ==
  IF r.fail THEN {Out(Err(500, "Failed to fetch tasks"), db0)}
  ELSE {Out(Rows(200, s), db0) :
          s \in OrderedBy(OwnedBy(db0.tasks, uid), TaskOrder(OwnedBy(db0.tasks, uid)))}

getTaskById(db0, uid, r) ==
  IF r.fail THEN {Out(Err(500, "Failed to fetch task"), db0)}
  ELSE LET found == FindFirst(db0.tasks, r.id, uid) IN
       IF found = {} THEN {Out(Err(404, "Task not found"), db0)}
       ELSE {Out(Rows(200, <<t>>), db0) : t \in found}

createTask(db0, uid, r) ==
  IF ~TruthyStr(r.body, "title")
  THEN {Out(Err(400, "Title is required"), db0)}
  ELSE IF r.fail THEN {Out(Err(500, "Failed to create task"), db0)}
  ELSE LET task == [id |-> SrvId(db0.nextId),
                    title |-> r.body.title,
                    description |-> IF TruthyStr(r.body, "description")
                                    THEN r.body.description ELSE Null,
                    completed |-> TruthyBool(r.body, "completed"),
                    priority |-> IF TruthyStr(r.body, "priority")
                                 THEN r.body.priority ELSE "medium",
                    dueDate |-> IF TruthyStr(r.body, "dueDate")
                                THEN ToDate(r.body.dueDate) ELSE Null,
                    userId |-> uid,
                    createdAt |-> db0.now]
       IN {Out(Rows(201, <<task>>), Insert(db0, "tasks", {task}))}

\* data: {...(title !== undefined && {title}), ...}
TaskData(old, b) ==
  [old EXCEPT !.title = IF Has(b, "title") THEN b.title ELSE @,
              !.description = IF Has(b, "description") THEN b.description ELSE @,
              !.completed = IF Has(b, "completed") THEN b.completed ELSE @,
              !.priority = IF Has(b, "priority") THEN b.priority ELSE @,
              !.dueDate = IF Has(b, "dueDate")
                          THEN (IF TruthyStr(b, "dueDate") THEN ToDate(b.dueDate) ELSE Null)
                          ELSE @]

updateTask(db0, uid, r) ==
  IF r.fail THEN {Out(Err(500, "Failed to update task"), db0)}
  ELSE IF FindFirst(db0.tasks, r.id, uid) = {}
  THEN {Out(Err(404, "Task not found"), db0)}
  ELSE {Out(Rows(200, <<TaskData(old, r.body)>>), [db0 EXCEPT !.tasks = (@ \ {old}) \cup {TaskData(old, r.body)}]) :
          old \in {t \in db0.tasks : t.id = r.id}}

deleteTask(db0, uid, r) ==
  IF r.fail THEN {Out(Err(500, "Failed to delete task"), db0)}
  ELSE IF FindFirst(db0.tasks, r.id, uid) = {}
  THEN {Out(Err(404, "Task not found"), db0)}
  ELSE {Out(Rows(200, <<>>), [db0 EXCEPT !.tasks = {t \in @ : t.id # r.id}])}

\* tasks.map(task => ({title, description || null, completed || false,
\* priority || 'medium', dueDate ? new Date(dueDate) : null, userId}))
\* an import that keeps the title alone and leaves the rest to the defaults
TaskWithUserIdTitleOnly(db0, uid, t, i) ==
  [id |-> SrvId(db0.nextId + i - 1),
   title |-> t.title,
   description |-> Null,
   completed |-> FALSE,
   priority |-> "medium",
   dueDate |-> Null,
   userId |-> uid,
   createdAt |-> db0.now]

TaskWithUserId(db0, uid, t, i) ==
  [id |-> SrvId(db0.nextId + i - 1),
   title |-> t.title,
   description |-> IF TruthyStr(t, "description") THEN t.description ELSE Null,
   completed |-> TruthyBool(t, "completed"),
   priority |-> IF TruthyStr(t, "priority") THEN t.priority ELSE "medium",
   dueDate |-> IF TruthyStr(t, "dueDate") THEN ToDate(t.dueDate) ELSE Null,
   userId |-> uid,
   createdAt |-> db0.now]

bulkCreateTasks(db0, uid, r) ==
  IF ~Has(r.body, "tasks") \/ ~IsArray(r.body.tasks) \/ Len(r.body.tasks) = 0
  THEN {Out(Err(400, "Tasks array is required"), db0)}
  ELSE IF r.fail \/ \E i \in 1..Len(r.body.tasks) : ~Has(r.body.tasks[i], "title")
  THEN {Out(Err(500, "Failed to sync tasks"), db0)}
  ELSE LET created == {TaskWithUserId(db0, uid, r.body.tasks[i], i) :
                         i \in 1..Len(r.body.tasks)}
       IN {Out(Count(201, Cardinality(created)), Insert(db0, "tasks", created))}

----------------------------------------------------------------------------
\* Ideas controller

\* orderBy: {createdAt: 'desc'}
IdeaBefore(a, b) == a.createdAt > b.createdAt

IdeaOrder(rows) == {p \in rows \X rows : IdeaBefore(p[1], p[2])}

\* where = {userId}; if (category) where.category = category
IdeasWhere(db0, uid, q) ==
  {i \in db0.ideas : i.userId = uid /\ (TruthyStr(q, "category") => i.category = q.category)}

getIdeas(db0, uid, r) ==
  IF r.fail THEN {Out(Err(500, "Failed to fetch ideas"), db0)}
  ELSE {Out(Rows(200, s), db0) :
          s \in OrderedBy(IdeasWhere(db0, uid, r.query), IdeaOrder(IdeasWhere(db0, uid, r.query)))}

getIdeaById(db0, uid, r) ==
  IF r.fail THEN {Out(Err(500, "Failed to fetch idea"), db0)}
  ELSE LET found == FindFirst(db0.ideas, r.id, uid) IN
       IF found = {} THEN {Out(Err(404, "Idea not found"), db0)}
       ELSE {Out(Rows(200, <<i>>), db0) : i \in found}

createIdea(db0, uid, r) ==
  IF ~TruthyStr(r.body, "title") \/ ~TruthyStr(r.body, "description")
  THEN {Out(Err(400, "Title and description are required"), db0)}
  ELSE IF r.fail THEN {Out(Err(500, "Failed to create idea"), db0)}
  ELSE LET idea == [id |-> SrvId(db0.nextId),
                    title |-> r.body.title,
                    description |-> r.body.description,
                    category |-> IF TruthyStr(r.body, "category")
                                 THEN r.body.category ELSE "general",
                    tags |-> IF Has(r.body, "tags") /\ IsArray(r.body.tags) THEN r.body.tags ELSE <<>>,
                    userId |-> uid,
                    createdAt |-> db0.now]
       IN {Out(Rows(201, <<idea>>), Insert(db0, "ideas", {idea}))}

\* data: {...(title !== undefined && {title}), ...}
IdeaData(old, b) ==
  [old EXCEPT !.title = IF Has(b, "title") THEN b.title ELSE @,
              !.description = IF Has(b, "description") THEN b.description ELSE @,
              !.category = IF Has(b, "category") THEN b.category ELSE @,
              !.tags = IF Has(b, "tags") THEN b.tags ELSE @]

updateIdea(db0, uid, r) ==
  IF r.fail THEN {Out(Err(500, "Failed to update idea"), db0)}
  ELSE IF FindFirst(db0.ideas, r.id, uid) = {}
  THEN {Out(Err(404, "Idea not found"), db0)}
  ELSE {Out(Rows(200, <<IdeaData(old, r.body)>>), [db0 EXCEPT !.ideas = (@ \ {old}) \cup {IdeaData(old, r.body)}]) :
          old \in {i \in db0.ideas : i.id = r.id}}

deleteIdea(db0, uid, r) ==
  IF r.fail THEN {Out(Err(500, "Failed to delete idea"), db0)}
  ELSE IF FindFirst(db0.ideas, r.id, uid) = {}
  THEN {Out(Err(404, "Idea not found"), db0)}
  ELSE {Out(Rows(200, <<>>), [db0 EXCEPT !.ideas = {i \in @ : i.id # r.id}])}

\* ideas.map(idea => ({title, description, category || 'general',
\* Array.isArray(tags) ? tags : [], userId}))
\* an import of ideas that stores the category as it was sent
IdeaWithUserIdAsSent(db0, uid, d, i) ==
  [id |-> SrvId(db0.nextId + i - 1),
   title |-> d.title,
   description |-> d.description,
   category |-> IF Has(d, "category") THEN d.category ELSE Null,
   tags |-> IF Has(d, "tags") /\ IsArray(d.tags) THEN d.tags ELSE <<>>,
   userId |-> uid,
   createdAt |-> db0.now]

IdeaWithUserId(db0, uid, d, i) ==
  [id |-> SrvId(db0.nextId + i - 1),
   title |-> d.title,
   description |-> d.description,
   category |-> IF TruthyStr(d, "category") THEN d.category ELSE "general",
   tags |-> IF Has(d, "tags") /\ IsArray(d.tags) THEN d.tags ELSE <<>>,
   userId |-> uid,
   createdAt |-> db0.now]

bulkCreateIdeas(db0, uid, r) ==
  IF ~Has(r.body, "ideas") \/ ~IsArray(r.body.ideas) \/ Len(r.body.ideas) = 0
  THEN {Out(Err(400, "Ideas array is required"), db0)}
  ELSE IF r.fail \/ \E i \in 1..Len(r.body.ideas) :
                       ~Has(r.body.ideas[i], "title") \/ ~Has(r.body.ideas[i], "description")
  THEN {Out(Err(500, "Failed to sync ideas"), db0)}
  ELSE LET created == {IdeaWithUserId(db0, uid, r.body.ideas[i], i) :
                         i \in 1..Len(r.body.ideas)}
       IN {Out(Count(201, Cardinality(created)), Insert(db0, "ideas", created))}

\* the lower-case form of the strings of the model
Lower(s) ==
  CASE s = "Blue" -> "blue"
    [] s = "BLUE sky" -> "blue sky"
    [] OTHER -> s

\* whether lower-case string q occurs in lower-case string s
Contains(s, q) ==
  \/ s = q
  \/ q = "blue" /\ s = "blue sky"

\* where: {userId, OR: [title contains (insensitive), description contains
\* (insensitive), tags has query]}
SearchMatches(i, q) ==
  \/ Contains(Lower(i.title), Lower(q))
  \/ Contains(Lower(i.description), Lower(q))
  \/ \E k \in 1..Len(i.tags) : i.tags[k] = q

\* where: {userId, OR: [...]}
IdeasFound(db0, uid, q) == {i \in OwnedBy(db0.ideas, uid) : SearchMatches(i, q)}

searchIdeas(db0, uid, r) ==
  IF ~TruthyStr(r.query, "query")
  THEN {Out(Err(400, "Search query is required"), db0)}
  ELSE IF r.fail THEN {Out(Err(500, "Failed to search ideas"), db0)}
  ELSE {Out(Rows(200, s), db0) :
          s \in OrderedBy(IdeasFound(db0, uid, r.query.query),
                          IdeaOrder(IdeasFound(db0, uid, r.query.query)))}

----------------------------------------------------------------------------
\* Auth controller

\* bcrypt.hash(password, 10): one-way, so only comparing recovers anything
bcryptHash(p) == <<"bcrypt", p>>

\* bcrypt.compare(password, hash)
bcryptCompare(p, h) == h = bcryptHash(p)

\* the user data a response carries (no password)
Public(u) == [id |-> u.id, email |-> u.email, name |-> u.name]

\* a registration that does not look the email up first
registerUnchecked(db0, r) ==
  IF ~TruthyStr(r.body, "email") \/ ~TruthyStr(r.body, "password")
  THEN {Out(Err(400, "Email and password are required"), db0)}
  ELSE IF r.fail THEN {Out(Err(500, "Failed to register user"), db0)}
  ELSE LET user == [id |-> Cardinality(db0.users) + 1,
                    email |-> r.body.email,
                    password |-> bcryptHash(r.body.password),
                    name |-> IF TruthyStr(r.body, "name") THEN r.body.name ELSE Null]
       IN {Out(Session(201, Public(user), jwtSign(user)), [db0 EXCEPT !.users = @ \cup {user}])}

register(db0, r) ==
  IF ~TruthyStr(r.body, "email") \/ ~TruthyStr(r.body, "password")
  THEN {Out(Err(400, "Email and password are required"), db0)}
  ELSE IF r.fail THEN {Out(Err(500, "Failed to register user"), db0)}
  ELSE IF \E u \in db0.users : u.email = r.body.email
  THEN {Out(Err(400, "User already exists with this email"), db0)}
  ELSE LET user == [id |-> Cardinality(db0.users) + 1,
                    email |-> r.body.email,
                    password |-> bcryptHash(r.body.password),
                    name |-> IF TruthyStr(r.body, "name") THEN r.body.name ELSE Null]
       IN {Out(Session(201, Public(user), jwtSign(user)), [db0 EXCEPT !.users = @ \cup {user}])}

\* a login that tells an unknown email from a wrong password
loginTelling(db0, r) ==
  IF ~TruthyStr(r.body, "email") \/ ~TruthyStr(r.body, "password")
  THEN {Out(Err(400, "Email and password are required"), db0)}
  ELSE IF r.fail THEN {Out(Err(500, "Failed to login"), db0)}
  ELSE LET found == {u \in db0.users : u.email = r.body.email} IN
       IF found = {}
       THEN {Out(Err(404, "User not found"), db0)}
       ELSE {IF ~bcryptCompare(r.body.password, u.password)
             THEN Out(Err(401, "Invalid email or password"), db0)
             ELSE Out(Session(200, Public(u), jwtSign(u)), db0) :
               u \in found}

login(db0, r) ==
  IF ~TruthyStr(r.body, "email") \/ ~TruthyStr(r.body, "password")
  THEN {Out(Err(400, "Email and password are required"), db0)}
  ELSE IF r.fail THEN {Out(Err(500, "Failed to login"), db0)}
  ELSE LET found == {u \in db0.users : u.email = r.body.email} IN
       IF found = {}
       THEN {Out(Err(401, "Invalid email or password"), db0)}
       ELSE {IF ~bcryptCompare(r.body.password, u.password)
             THEN Out(Err(401, "Invalid email or password"), db0)
             ELSE Out(Session(200, Public(u), jwtSign(u)), db0) :
               u \in found}

\* a getProfile without its try / catch: a failing findUnique rejects the
\* handler's promise and no response is sent
getProfileUncaught(db0, uid, r) ==
  IF r.fail THEN {Out(Err(0, ""), db0)}
  ELSE LET found == {u \in db0.users : u.id = uid} IN
       IF found = {} THEN {Out(Err(404, "User not found"), db0)}
       ELSE {Out(Session(200, Public(u), NoToken), db0) : u \in found}

getProfile(db0, uid, r) ==
  IF r.fail THEN {Out(Err(500, "Failed to get user profile"), db0)}
  ELSE LET found == {u \in db0.users : u.id = uid} IN
       IF found = {} THEN {Out(Err(404, "User not found"), db0)}
       ELSE {Out(Session(200, Public(u), NoToken), db0) : u \in found}

----------------------------------------------------------------------------
\* Routers and the application

\* a handler ran with req.userId = uid
Ran(name, uid, outs) ==
  {[res |-> o.res, db |-> o.db, ran |-> name, uid |-> uid] : o \in outs}

\* a middleware or the application answered; no handler ran
Answered(db0, r) ==
  {[res |-> r, db |-> db0, ran |-> "none", uid |-> 0]}

\* app.use((req, res) => res.status(404).json({error: 'Route not found'}))
RouteNotFound(db0) == Answered(db0, Err(404, "Route not found"))

authRoutes(db0, r) ==
  CASE r.route = "POST /register" -> Ran("register", 0, register(db0, r))
    [] r.route = "POST /login" -> Ran("login", 0, login(db0, r))
    [] r.route = "GET /profile" ->
         LET a == authMiddleware(r.hdr) IN
         IF ~a.next THEN Answered(db0, a.res)
         ELSE Ran("getProfile", a.userId, getProfile(db0, a.userId, r))
    [] OTHER -> RouteNotFound(db0)

notesRoutes(db0, r) ==
  LET a == authMiddleware(r.hdr) IN
  IF ~a.next THEN Answered(db0, a.res)
  ELSE CASE r.route = "GET /" -> Ran("getNotes", a.userId, getNotes(db0, a.userId, r))
         [] r.route = "GET /:id" -> Ran("getNoteById", a.userId, getNoteById(db0, a.userId, r))
         [] r.route = "POST /" -> Ran("createNote", a.userId, createNote(db0, a.userId, r))
         [] r.route = "PUT /:id" -> Ran("updateNote", a.userId, updateNote(db0, a.userId, r))
         [] r.route = "DELETE /:id" -> Ran("deleteNote", a.userId, deleteNote(db0, a.userId, r))
         [] r.route = "POST /sync" ->
              Ran("bulkCreateNotes", a.userId, bulkCreateNotes(db0, a.userId, r))
         [] OTHER -> RouteNotFound(db0)

tasksRoutes(db0, r) ==
  LET a == authMiddleware(r.hdr) IN
  IF ~a.next THEN Answered(db0, a.res)
  ELSE CASE r.route = "GET /" -> Ran("getTasks", a.userId, getTasks(db0, a.userId, r))
         [] r.route = "GET /:id" -> Ran("getTaskById", a.userId, getTaskById(db0, a.userId, r))
         [] r.route = "POST /" -> Ran("createTask", a.userId, createTask(db0, a.userId, r))
         [] r.route = "PUT /:id" -> Ran("updateTask", a.userId, updateTask(db0, a.userId, r))
         [] r.route = "DELETE /:id" -> Ran("deleteTask", a.userId, deleteTask(db0, a.userId, r))
         [] r.route = "POST /sync" ->
              Ran("bulkCreateTasks", a.userId, bulkCreateTasks(db0, a.userId, r))
         [] OTHER -> RouteNotFound(db0)

ideasRoutes(db0, r) ==
  LET a == authMiddleware(r.hdr) IN
  IF ~a.next THEN Answered(db0, a.res)
  ELSE CASE r.route = "GET /search" -> Ran("searchIdeas", a.userId, searchIdeas(db0, a.userId, r))
         [] r.route = "GET /" -> Ran("getIdeas", a.userId, getIdeas(db0, a.userId, r))
         [] r.route = "GET /:id" -> Ran("getIdeaById", a.userId, getIdeaById(db0, a.userId, r))
         [] r.route = "POST /" -> Ran("createIdea", a.userId, createIdea(db0, a.userId, r))
         [] r.route = "PUT /:id" -> Ran("updateIdea", a.userId, updateIdea(db0, a.userId, r))
         [] r.route = "DELETE /:id" -> Ran("deleteIdea", a.userId, deleteIdea(db0, a.userId, r))
         [] r.route = "POST /sync" ->
              Ran("bulkCreateIdeas", a.userId, bulkCreateIdeas(db0, a.userId, r))
         [] OTHER -> RouteNotFound(db0)

\* app.use('/api/auth', authRoutes) ... app.use('/api/ideas', ideasRoutes)
app(db0, r) ==
  CASE r.mount = "/api/auth" -> authRoutes(db0, r)
    [] r.mount = "/api/notes" -> notesRoutes(db0, r)
    [] r.mount = "/api/tasks" -> tasksRoutes(db0, r)
    [] r.mount = "/api/ideas" -> ideasRoutes(db0, r)
    [] OTHER -> RouteNotFound(db0)

EmptyBody == <<>>

Request(mount, route, hdr, id, body, query, fail) ==
  [mount |-> mount, route |-> route, hdr |-> hdr, id |-> id, body |-> body,
   query |-> query, fail |-> fail]

Tables == {"notes", "tasks", "ideas"}

\* the content table a request addresses
TableOf(r) ==
  CASE r.mount = "/api/notes" -> {"notes"}
    [] r.mount = "/api/tasks" -> {"tasks"}
    [] r.mount = "/api/ideas" -> {"ideas"}
    [] OTHER -> {}

\* the model's bounds: the identifiers the database assigns, and the content
\* tables in use at one time, holding rows or addressed by the request (the
\* controllers share no table)
Bounded(d, r) ==
  /\ d.nextId <= MaxRows + 1
  /\ Cardinality({t \in Tables : d[t] # {}} \cup TableOf(r)) <= MaxTables

\* the server handles request r to completion and responds
Serve(r) ==
  \E o \in app(db, r) :
    /\ Bounded(o.db, r)
    /\ db' = o.db
    /\ req' = r
    /\ res' = o.res
    /\ ran' = o.ran
    /\ reqUser' = o.uid
    /\ UNCHANGED handlers

----------------------------------------------------------------------------
\* The API and its callers

Emails == {"a@x", "b@x"}
Passwords == {"pw1", "pw2"}

NoId == SrvId(0)
Ids == {SrvId(n) : n \in 1..MaxRows}
FirstId == {SrvId(1)}

\* Authorization: Bearer <token>
Bearer(t) == <<"Bearer", t>>

\* the headers of the callers that hold a token the server issued
Callers == {Bearer(jwtSign(u)) : u \in db.users}

\* tokens a caller can present: the issued ones, and with the claims of the
\* first user an issued one past its expiry and a forged one (signed with
\* another key)
AnyToken ==
  {jwtSign(u) : u \in db.users}
    \cup {[userId |-> u.id, email |-> u.email, sig |-> "valid", expired |-> TRUE] :
           u \in {v \in db.users : v.id = 1}}
    \cup {[userId |-> u.id, email |-> u.email, sig |-> "invalid", expired |-> FALSE] :
           u \in {v \in db.users : v.id = 1}}

\* every shape of Authorization header: none, a scheme with no token, a token
\* after the scheme Bearer, and an issued token after another scheme
AnyHeader ==
  {<<>>, <<"Bearer">>} \cup {Bearer(t) : t \in AnyToken}
    \cup {<<"Basic", jwtSign(u)>> : u \in {v \in db.users : v.id = 1}}

SignUps ==
  {[email |-> e, password |-> "pw1"] : e \in Emails}

NoteBodies == {[title |-> "n1", content |-> "c1"]}

NoteUpdates == {[title |-> "n2"], [isPinned |-> TRUE, color |-> "#3b82f6"]}

\* guest notes as getNotesForSync exports them
NoteSyncs ==
  {[notes |-> <<[title |-> "n1", content |-> "c1", color |-> "#3b82f6",
                 isPinned |-> FALSE, createdAt |-> 1, updatedAt |-> 1]>>]}

TaskBodies == {[title |-> "t1"]}

TaskUpdates == {[completed |-> TRUE], [title |-> "t2", dueDate |-> "2024-01-01"]}

\* guest tasks as getTasksForSync exports them
TaskSyncs ==
  {[tasks |-> <<[title |-> "t1", description |-> "", priority |-> "medium",
                 dueDate |-> "", completed |-> FALSE, createdAt |-> 1,
                 updatedAt |-> 1]>>]}

IdeaBodies == {[title |-> "i1", description |-> "BLUE sky"]}

IdeaUpdates == {[tags |-> <<"blue">>], [category |-> "work", title |-> "i2"]}

\* guest ideas as getIdeasForSync exports them
IdeaSyncs ==
  {[ideas |-> <<[title |-> "i1", description |-> "d1", tags |-> <<>>,
                 category |-> "general", createdAt |-> 1, updatedAt |-> 1]>>]}

IdeaQueries == {EmptyBody, [category |-> "work"]}
SearchQueries == {[query |-> "blue"]}

\* POST /api/auth/register
Register(B) ==
  \E b \in B :
    Serve(Request("/api/auth", "POST /register", <<>>, NoId, b, EmptyBody, FALSE))

\* POST /api/auth/login
Login(B) ==
  \E b \in B :
    Serve(Request("/api/auth", "POST /login", <<>>, NoId, b, EmptyBody, FALSE))

\* GET /api/auth/profile
GetProfile(H) ==
  \E h \in H :
    Serve(Request("/api/auth", "GET /profile", h, NoId, EmptyBody, EmptyBody, FALSE))

\* GET /api/<type>
List(mount, H, Q) ==
  \E h \in H, q \in Q :
    Serve(Request(mount, "GET /", h, NoId, EmptyBody, q, FALSE))

\* GET /api/<type>/:id
Get(mount, H, I) ==
  \E h \in H, id \in I :
    Serve(Request(mount, "GET /:id", h, id, EmptyBody, EmptyBody, FALSE))

\* POST /api/<type>
Create(mount, H, B) ==
  \E h \in H, b \in B :
    Serve(Request(mount, "POST /", h, NoId, b, EmptyBody, FALSE))

\* PUT /api/<type>/:id
Update(mount, H, I, B) ==
  \E h \in H, id \in I, b \in B :
    Serve(Request(mount, "PUT /:id", h, id, b, EmptyBody, FALSE))

\* DELETE /api/<type>/:id
Delete(mount, H, I) ==
  \E h \in H, id \in I :
    Serve(Request(mount, "DELETE /:id", h, id, EmptyBody, EmptyBody, FALSE))

\* POST /api/<type>/sync
BulkImport(mount, H, B) ==
  \E h \in H, b \in B :
    Serve(Request(mount, "POST /sync", h, NoId, b, EmptyBody, FALSE))

\* GET /api/ideas/search
Search(H, Q) ==
  \E h \in H, q \in Q :
    Serve(Request("/api/ideas", "GET /search", h, NoId, EmptyBody, q, FALSE))

EmptyDb == [users |-> {}, notes |-> {}, tasks |-> {}, ideas |-> {}, nextId |-> 1, now |-> 1]

NoResult == [op |-> "none", success |-> FALSE, error |-> ""]
NoKept == [uid |-> 0, notes |-> <<>>, tasks |-> <<>>, ideas |-> <<>>]

\* the auth store as created
GuestAuth == [user |-> NoUser, token |-> NoToken, isAuthenticated |-> FALSE, isGuest |-> TRUE]

Init ==
  /\ db = EmptyDb
  /\ req = NoRequest
  /\ res = Err(0, "")
  /\ ran = "none"
  /\ reqUser = 0
  /\ handlers = {}
  /\ auth = GuestAuth
  /\ lsToken = NoToken
  /\ cNotes = <<>>
  /\ cTasks = <<>>
  /\ cIdeas = <<>>
  /\ cnow = 1
  /\ result = NoResult
  /\ kept = NoKept
  /\ steps = 0
  /\ loading = [t \in Tables |-> FALSE]
  /\ error = [t \in Tables |-> Null]
  /\ flight = {}

Next ==
  \/ Register(SignUps) /\ UNCHANGED clientVars
  \/ GetProfile(Callers) /\ UNCHANGED clientVars
  \/ List("/api/notes", Callers, {EmptyBody}) /\ UNCHANGED clientVars
  \/ Get("/api/notes", Callers, Ids) /\ UNCHANGED clientVars
  \/ Create("/api/notes", Callers, NoteBodies) /\ UNCHANGED clientVars
  \/ Update("/api/notes", Callers, Ids, NoteUpdates) /\ UNCHANGED clientVars
  \/ Delete("/api/notes", Callers, Ids) /\ UNCHANGED clientVars
  \/ BulkImport("/api/notes", Callers, NoteSyncs) /\ UNCHANGED clientVars
  \/ List("/api/tasks", Callers, {EmptyBody}) /\ UNCHANGED clientVars
  \/ Get("/api/tasks", Callers, Ids) /\ UNCHANGED clientVars
  \/ Create("/api/tasks", Callers, TaskBodies) /\ UNCHANGED clientVars
  \/ Update("/api/tasks", Callers, Ids, TaskUpdates) /\ UNCHANGED clientVars
  \/ Delete("/api/tasks", Callers, Ids) /\ UNCHANGED clientVars
  \/ BulkImport("/api/tasks", Callers, TaskSyncs) /\ UNCHANGED clientVars
  \/ List("/api/ideas", Callers, IdeaQueries) /\ UNCHANGED clientVars
  \/ Get("/api/ideas", Callers, Ids) /\ UNCHANGED clientVars
  \/ Create("/api/ideas", Callers, IdeaBodies) /\ UNCHANGED clientVars
  \/ Update("/api/ideas", Callers, Ids, IdeaUpdates) /\ UNCHANGED clientVars
  \/ Delete("/api/ideas", Callers, Ids) /\ UNCHANGED clientVars
  \/ BulkImport("/api/ideas", Callers, IdeaSyncs) /\ UNCHANGED clientVars
  \/ Search(Callers, SearchQueries) /\ UNCHANGED clientVars

Spec == Init /\ [][Next]_vars

----------------------------------------------------------------------------
\* SpecAuth: the API called with every shape of Authorization header

RegisterBodies ==
  SignUps \cup {[email |-> "a@x", password |-> "pw2"], [email |-> "a@x"]}

LoginBodies ==
  {[email |-> e, password |-> p] : e \in Emails, p \in Passwords}
    \cup {[password |-> "pw1"]}

NextAuth ==
  \/ Register(RegisterBodies) /\ UNCHANGED clientVars
  \/ Login(LoginBodies) /\ UNCHANGED clientVars
  \/ GetProfile(AnyHeader) /\ UNCHANGED clientVars
  \/ List("/api/notes", AnyHeader, {EmptyBody}) /\ UNCHANGED clientVars
  \/ Get("/api/notes", AnyHeader, FirstId) /\ UNCHANGED clientVars
  \/ Create("/api/notes", AnyHeader, NoteBodies) /\ UNCHANGED clientVars
  \/ Update("/api/notes", AnyHeader, FirstId, {[title |-> "n2"]}) /\ UNCHANGED clientVars
  \/ Delete("/api/notes", AnyHeader, FirstId) /\ UNCHANGED clientVars
  \/ BulkImport("/api/notes", AnyHeader, NoteSyncs) /\ UNCHANGED clientVars
  \/ List("/api/tasks", AnyHeader, {EmptyBody}) /\ UNCHANGED clientVars
  \/ Get("/api/tasks", AnyHeader, FirstId) /\ UNCHANGED clientVars
  \/ Create("/api/tasks", AnyHeader, TaskBodies) /\ UNCHANGED clientVars
  \/ Update("/api/tasks", AnyHeader, FirstId, {[completed |-> TRUE]}) /\ UNCHANGED clientVars
  \/ Delete("/api/tasks", AnyHeader, FirstId) /\ UNCHANGED clientVars
  \/ BulkImport("/api/tasks", AnyHeader, TaskSyncs) /\ UNCHANGED clientVars
  \/ List("/api/ideas", AnyHeader, {EmptyBody}) /\ UNCHANGED clientVars
  \/ Get("/api/ideas", AnyHeader, FirstId) /\ UNCHANGED clientVars
  \/ Create("/api/ideas", AnyHeader, IdeaBodies) /\ UNCHANGED clientVars
  \/ Update("/api/ideas", AnyHeader, FirstId, {[category |-> "work"]}) /\ UNCHANGED clientVars
  \/ Delete("/api/ideas", AnyHeader, FirstId) /\ UNCHANGED clientVars
  \/ BulkImport("/api/ideas", AnyHeader, IdeaSyncs) /\ UNCHANGED clientVars
  \/ Search(AnyHeader, SearchQueries) /\ UNCHANGED clientVars

SpecAuth == Init /\ [][NextAuth]_vars

----------------------------------------------------------------------------
\* Properties of the API (Spec, SpecAuth)

ListHandlers == {"getNotes", "getTasks", "getIdeas", "searchIdeas"}
GetHandlers == {"getNoteById", "getTaskById", "getIdeaById"}
CreateHandlers == {"createNote", "createTask", "createIdea"}
UpdateHandlers == {"updateNote", "updateTask", "updateIdea"}
DeleteHandlers == {"deleteNote", "deleteTask", "deleteIdea"}
BulkHandlers == {"bulkCreateNotes", "bulkCreateTasks", "bulkCreateIdeas"}
ContentHandlers ==
  ListHandlers \cup GetHandlers \cup CreateHandlers \cup UpdateHandlers
    \cup DeleteHandlers \cup BulkHandlers
ProtectedHandlers == ContentHandlers \cup {"getProfile"}

\* the content fields of a record of table t
ContentFields(t) ==
  CASE t = "notes" -> {"title", "content", "color", "isPinned"}
    [] t = "tasks" -> {"title", "description", "completed", "priority", "dueDate"}
    [] t = "ideas" -> {"title", "description", "category", "tags"}

\* the routes behind the token verification
Protected(r) ==
  \/ r.mount \in {"/api/notes", "/api/tasks", "/api/ideas"}
  \/ r.mount = "/api/auth" /\ r.route = "GET /profile"

C1_Step ==
  /\ ran' \in ListHandlers \cup GetHandlers =>
       \A i \in 1..Len(res'.rows) : res'.rows[i].userId = reqUser'
  /\ ran' \in UpdateHandlers \cup DeleteHandlers =>
       \A t \in TableOf(req') : \A x \in db[t] :
         (x.id = req'.id /\ x.userId # reqUser') =>
           /\ res'.status = 404
           /\ x \in db'[t]

\* C1: a record owned by user A is never returned to another user B by List,
\* Get or Search, and an Update or Delete of it by B answers 404 and leaves
\* the stored record as it was.
C1_OwnershipIsolation == [][C1_Step]_vars

\* B asked to update or delete a record that exists and is owned by A
C1_Witness ==
  /\ ran \in UpdateHandlers \cup DeleteHandlers
  /\ res.status = 404
  /\ \E t \in TableOf(req) : \E x \in db[t] : x.id = req.id /\ x.userId # reqUser

\* C3: no content handler and no GetProfile handler runs unless the request
\* carried a token whose verification succeeded, and the owner id the handler
\* uses is the user id claim of that token.
C3_HandlerNeedsVerifiedToken ==
  ran \in ProtectedHandlers =>
    /\ Len(req.hdr) >= 2
    /\ req.hdr[2].sig = "valid"
    /\ ~req.hdr[2].expired
    /\ reqUser = req.hdr[2].userId

\* a content handler ran for the second registered user
C3_Witness ==
  /\ ran \in ContentHandlers
  /\ res.status \in {200, 201}
  /\ reqUser = 2

\* the Authorization header is missing, is not of the form "Bearer <token>",
\* or holds a token with an invalid signature or past its expiry
BadHeader(hdr) ==
  \/ Len(hdr) # 2
  \/ hdr[1] # "Bearer"
  \/ hdr[2].sig # "valid"
  \/ hdr[2].expired

\* C4: token verification answers 401 when the authorization header is
\* missing, is malformed (not of the form "Bearer <token>"), or carries a token
\* with an invalid signature or an expired token.
C4_BadHeaderIs401 ==
  (req.route # "none" /\ Protected(req) /\ BadHeader(req.hdr)) =>
    /\ res.status = 401
    /\ ran = "none"

C8_Step ==
  /\ (/\ ran' = "register"
      /\ Has(req'.body, "email")
      /\ \E u \in db.users : u.email = req'.body.email) =>
       /\ res'.status = 400
       /\ res'.token = NoToken
       /\ db'.users = db.users
  /\ \A u, v \in db'.users : u.email = v.email => u = v

\* C8: Register with an email that is already registered answers 400, stores
\* no user and issues no token; no two stored users ever share an email.
C8_DuplicateEmailRejected == [][C8_Step]_vars

\* a registration was refused because the email is taken
C8_Witness ==
  /\ ran = "register"
  /\ res.status = 400
  /\ TruthyStr(req.body, "password")
  /\ \E u \in db.users : u.email = req.body.email

\* C9: Login with an unregistered email and Login with a registered email and
\* a wrong password get the same response: status 401, the message "Invalid
\* email or password", no user and no token.
C9_LoginFailuresAlike ==
  (/\ ran = "login"
   /\ TruthyStr(req.body, "email") /\ TruthyStr(req.body, "password")
   /\ \A u \in db.users :
        u.email = req.body.email => u.password # bcryptHash(req.body.password)) =>
    res = Err(401, "Invalid email or password")

\* a login with a registered email and a wrong password was refused
C9_Witness ==
  /\ ran = "login"
  /\ res.status = 401
  /\ TruthyStr(req.body, "password")
  /\ \E u \in db.users :
       u.email = req.body.email /\ u.password # bcryptHash(req.body.password)

C10_Step ==
  (ran' \in UpdateHandlers /\ res'.status = 200) =>
    \E t \in TableOf(req') : \E old \in db[t], new \in db'[t] :
      /\ old.id = req'.id
      /\ new.id = old.id
      /\ new.userId = old.userId
      /\ new.createdAt = old.createdAt
      /\ \A f \in ContentFields(t) \ DOMAIN req'.body : new[f] = old[f]
      /\ db'[t] \ {new} = db[t] \ {old}
      /\ \A o \in Tables \ {t} : db'[o] = db[o]
      /\ db'.users = db.users

\* C10: a successful Update by the owner changes only the content fields
\* present in the request; the record's other fields, its owner, its
\* identifier and every other record stay as they were.
C10_UpdateTouchesOnlyGivenFields == [][C10_Step]_vars

\* an update that carried some content fields and not others succeeded
C10_Witness ==
  /\ ran \in UpdateHandlers
  /\ res.status = 200
  /\ \E t \in TableOf(req) :
       /\ ContentFields(t) \cap DOMAIN req.body # {}
       /\ ContentFields(t) \ DOMAIN req.body # {}

----------------------------------------------------------------------------
\* The browser client

\* {...a, ...b}
Spread(a, b) ==
  [f \in DOMAIN a \cup DOMAIN b |-> IF f \in DOMAIN b THEN b[f] ELSE a[f]]

\* ({id, ...rest}) => rest
WithoutId(x) == [f \in DOMAIN x \ {"id"} |-> x[f]]

\* generateId(): an identifier made in the browser
generateId(n) == <<"loc", n>>

\* list.filter(x => x.id !== id)
FilterOut(list, id) ==
  LET F[i \in 0..Len(list)] ==
        IF i = 0 THEN <<>>
        ELSE IF list[i].id = id THEN F[i - 1] ELSE Append(F[i - 1], list[i])
  IN F[Len(list)]

\* the identifiers of the records a page shows
IdsOf(list) == {list[i].id : i \in 1..Len(list)}

Ok(r) == r.status \in 200..299

\* api.js: the request interceptor adds the stored token to the request, the
\* response interceptor removes the stored token on a 401
Api(db0, tok, r) ==
  LET sent == [r EXCEPT !.hdr = IF tok = NoToken THEN <<>> ELSE Bearer(tok)] IN
  {[req |-> sent, res |-> o.res, db |-> o.db, ran |-> o.ran, uid |-> o.uid,
    tok |-> IF o.res.status = 401 THEN NoToken ELSE tok] :
     o \in app(db0, sent)}

\* the server and the token store after the call with outcome a
Answer(a) ==
  /\ a.db.nextId <= MaxRows + 1
  /\ db' = a.db /\ req' = a.req /\ res' = a.res /\ ran' = a.ran /\ reqUser' = a.uid
  /\ UNCHANGED handlers
  /\ lsToken' = a.tok

\* the catch block of a store action: error.response?.data?.error || fallback
Message(r, fallback) == IF r.error # "" THEN r.error ELSE fallback

\* set({loading: true, error: null}) ... set({..., loading: false}) or
\* set({error: message, loading: false}), once the call returned with outcome a
Settled(t, a, fallback) ==
  /\ loading' = [loading EXCEPT ![t] = FALSE]
  /\ error' = [error EXCEPT ![t] = IF Ok(a.res) THEN Null ELSE Message(a.res, fallback)]

\* what the pages' forms hold when saved
NoteForms == {[title |-> "n1", content |-> "c1", color |-> "#3b82f6", isPinned |-> FALSE]}
TaskForms == {[title |-> "t1", description |-> "", priority |-> "high", dueDate |-> ""]}
IdeaForms ==
  {[title |-> "i1", description |-> "d1", category |-> "general", tags |-> <<"blue">>]}
NoteEdits == {[isPinned |-> TRUE]}
TaskEdits == {[completed |-> TRUE]}
IdeaEdits ==
  {[title |-> "i1", description |-> "d1", category |-> "work", tags |-> <<>>]}

\* a guest record of the snapshot is no longer followed once the user deletes it
Forget(id) ==
  [kept EXCEPT !.notes = FilterOut(@, id), !.tasks = FilterOut(@, id),
               !.ideas = FilterOut(@, id)]

\* useNotesStore.fetchNotes
useNotesStore_fetchNotes ==
  IF ~auth.isAuthenticated THEN UNCHANGED <<serverVars, storeVars>>
  ELSE \E a \in Api(db, lsToken,
                    Request("/api/notes", "GET /", <<>>, NoId, EmptyBody, EmptyBody, FALSE)) :
         /\ Answer(a)
         /\ cNotes' = IF Ok(a.res) THEN a.res.rows ELSE cNotes
         /\ Settled("notes", a, "Failed to fetch notes")
         /\ UNCHANGED <<auth, cTasks, cIdeas, cnow, result, kept, flight>>

\* useNotesStore.addNote
useNotesStore_addNote(F) ==
  \E noteData \in F :
    IF ~auth.isAuthenticated
    THEN /\ cnow <= MaxLocal
         /\ cNotes' = <<Spread(Spread([id |-> generateId(cnow)], noteData),
                               [createdAt |-> cnow, updatedAt |-> cnow])>> \o cNotes
         /\ cnow' = cnow + 1
         /\ UNCHANGED <<serverVars, auth, lsToken, cTasks, cIdeas, result, kept, loading, error, flight>>
    ELSE \E a \in Api(db, lsToken,
                      Request("/api/notes", "POST /", <<>>, NoId, noteData, EmptyBody, FALSE)) :
           /\ Answer(a)
           /\ cNotes' = IF Ok(a.res) THEN <<a.res.rows[1]>> \o cNotes ELSE cNotes
           /\ Settled("notes", a, "Failed to create note")
           /\ UNCHANGED <<auth, cTasks, cIdeas, cnow, result, kept, flight>>

\* useNotesStore.updateNote
useNotesStore_updateNote(U) ==
  \E id \in IdsOf(cNotes), updates \in U :
    IF ~auth.isAuthenticated
    THEN LET Updated(note) ==
               IF note.id = id
               THEN Spread(Spread(note, updates), [updatedAt |-> cnow])
               ELSE note
         IN /\ cNotes' = [i \in 1..Len(cNotes) |-> Updated(cNotes[i])]
            /\ kept' = [kept EXCEPT !.notes = [i \in 1..Len(@) |-> Updated(@[i])]]
            /\ UNCHANGED <<serverVars, auth, lsToken, cTasks, cIdeas, cnow, result, loading, error, flight>>
    ELSE \E a \in Api(db, lsToken,
                      Request("/api/notes", "PUT /:id", <<>>, id, updates, EmptyBody, FALSE)) :
           LET Updated(note) == IF note.id = id THEN a.res.rows[1] ELSE note
           IN /\ Answer(a)
              /\ cNotes' = IF Ok(a.res) THEN [i \in 1..Len(cNotes) |-> Updated(cNotes[i])] ELSE cNotes
              /\ kept' = IF Ok(a.res) THEN [kept EXCEPT !.notes = <<>>] ELSE kept
              /\ Settled("notes", a, "Failed to update note")
              /\ UNCHANGED <<auth, cTasks, cIdeas, cnow, result, flight>>

\* useNotesStore.deleteNote
useNotesStore_deleteNote ==
  \E id \in IdsOf(cNotes) :
    IF ~auth.isAuthenticated
    THEN /\ cNotes' = FilterOut(cNotes, id)
         /\ kept' = Forget(id)
         /\ UNCHANGED <<serverVars, auth, lsToken, cTasks, cIdeas, cnow, result, loading, error, flight>>
    ELSE \E a \in Api(db, lsToken,
                      Request("/api/notes", "DELETE /:id", <<>>, id, EmptyBody, EmptyBody, FALSE)) :
           /\ Answer(a)
           /\ cNotes' = IF Ok(a.res) THEN FilterOut(cNotes, id) ELSE cNotes
           /\ kept' = IF Ok(a.res) THEN [kept EXCEPT !.notes = <<>>] ELSE kept
           /\ Settled("notes", a, "Failed to delete note")
           /\ UNCHANGED <<auth, cTasks, cIdeas, cnow, result, flight>>

\* useNotesStore.getNotesForSync
useNotesStore_getNotesForSync(notes) == [i \in 1..Len(notes) |-> WithoutId(notes[i])]

\* useTasksStore.fetchTasks
useTasksStore_fetchTasks ==
  IF ~auth.isAuthenticated THEN UNCHANGED <<serverVars, storeVars>>
  ELSE \E a \in Api(db, lsToken,
                    Request("/api/tasks", "GET /", <<>>, NoId, EmptyBody, EmptyBody, FALSE)) :
         /\ Answer(a)
         /\ cTasks' = IF Ok(a.res) THEN a.res.rows ELSE cTasks
         /\ Settled("tasks", a, "Failed to fetch tasks")
         /\ UNCHANGED <<auth, cNotes, cIdeas, cnow, result, kept, flight>>

\* useTasksStore.addTask
useTasksStore_addTask(F) ==
  \E taskData \in F :
    IF ~auth.isAuthenticated
    THEN /\ cnow <= MaxLocal
         /\ cTasks' = <<Spread(Spread([id |-> generateId(cnow)], taskData),
                               [completed |-> FALSE, createdAt |-> cnow,
                                updatedAt |-> cnow])>> \o cTasks
         /\ cnow' = cnow + 1
         /\ UNCHANGED <<serverVars, auth, lsToken, cNotes, cIdeas, result, kept, loading, error, flight>>
    ELSE \E a \in Api(db, lsToken,
                      Request("/api/tasks", "POST /", <<>>, NoId, taskData, EmptyBody, FALSE)) :
           /\ Answer(a)
           /\ cTasks' = IF Ok(a.res) THEN <<a.res.rows[1]>> \o cTasks ELSE cTasks
           /\ Settled("tasks", a, "Failed to create task")
           /\ UNCHANGED <<auth, cNotes, cIdeas, cnow, result, kept, flight>>

\* useTasksStore.updateTask
useTasksStore_updateTask(U) ==
  \E id \in IdsOf(cTasks), updates \in U :
    IF ~auth.isAuthenticated
    THEN LET Updated(task) ==
               IF task.id = id
               THEN Spread(Spread(task, updates), [updatedAt |-> cnow])
               ELSE task
         IN /\ cTasks' = [i \in 1..Len(cTasks) |-> Updated(cTasks[i])]
            /\ kept' = [kept EXCEPT !.tasks = [i \in 1..Len(@) |-> Updated(@[i])]]
            /\ UNCHANGED <<serverVars, auth, lsToken, cNotes, cIdeas, cnow, result, loading, error, flight>>
    ELSE \E a \in Api(db, lsToken,
                      Request("/api/tasks", "PUT /:id", <<>>, id, updates, EmptyBody, FALSE)) :
           LET Updated(task) == IF task.id = id THEN a.res.rows[1] ELSE task
           IN /\ Answer(a)
              /\ cTasks' = IF Ok(a.res) THEN [i \in 1..Len(cTasks) |-> Updated(cTasks[i])] ELSE cTasks
              /\ kept' = IF Ok(a.res) THEN [kept EXCEPT !.tasks = <<>>] ELSE kept
              /\ Settled("tasks", a, "Failed to update task")
              /\ UNCHANGED <<auth, cNotes, cIdeas, cnow, result, flight>>

\* useTasksStore.deleteTask
useTasksStore_deleteTask ==
  \E id \in IdsOf(cTasks) :
    IF ~auth.isAuthenticated
    THEN /\ cTasks' = FilterOut(cTasks, id)
         /\ kept' = Forget(id)
         /\ UNCHANGED <<serverVars, auth, lsToken, cNotes, cIdeas, cnow, result, loading, error, flight>>
    ELSE \E a \in Api(db, lsToken,
                      Request("/api/tasks", "DELETE /:id", <<>>, id, EmptyBody, EmptyBody, FALSE)) :
           /\ Answer(a)
           /\ cTasks' = IF Ok(a.res) THEN FilterOut(cTasks, id) ELSE cTasks
           /\ kept' = IF Ok(a.res) THEN [kept EXCEPT !.tasks = <<>>] ELSE kept
           /\ Settled("tasks", a, "Failed to delete task")
           /\ UNCHANGED <<auth, cNotes, cIdeas, cnow, result, flight>>

\* useTasksStore.getTasksForSync
useTasksStore_getTasksForSync(tasks) == [i \in 1..Len(tasks) |-> WithoutId(tasks[i])]

\* useIdeasStore.fetchIdeas (no category chosen)
useIdeasStore_fetchIdeas ==
  IF ~auth.isAuthenticated THEN UNCHANGED <<serverVars, storeVars>>
  ELSE \E a \in Api(db, lsToken,
                    Request("/api/ideas", "GET /", <<>>, NoId, EmptyBody, EmptyBody, FALSE)) :
         /\ Answer(a)
         /\ cIdeas' = IF Ok(a.res) THEN a.res.rows ELSE cIdeas
         /\ Settled("ideas", a, "Failed to fetch ideas")
         /\ UNCHANGED <<auth, cNotes, cTasks, cnow, result, kept, flight>>

\* useIdeasStore.addIdea
useIdeasStore_addIdea(F) ==
  \E ideaData \in F :
    IF ~auth.isAuthenticated
    THEN /\ cnow <= MaxLocal
         /\ cIdeas' = <<Spread(Spread([id |-> generateId(cnow)], ideaData),
                               [tags |-> IF Has(ideaData, "tags") THEN ideaData.tags ELSE <<>>,
                                category |-> IF TruthyStr(ideaData, "category")
                                             THEN ideaData.category ELSE "general",
                                createdAt |-> cnow, updatedAt |-> cnow])>> \o cIdeas
         /\ cnow' = cnow + 1
         /\ UNCHANGED <<serverVars, auth, lsToken, cNotes, cTasks, result, kept, loading, error, flight>>
    ELSE \E a \in Api(db, lsToken,
                      Request("/api/ideas", "POST /", <<>>, NoId, ideaData, EmptyBody, FALSE)) :
           /\ Answer(a)
           /\ cIdeas' = IF Ok(a.res) THEN <<a.res.rows[1]>> \o cIdeas ELSE cIdeas
           /\ Settled("ideas", a, "Failed to create idea")
           /\ UNCHANGED <<auth, cNotes, cTasks, cnow, result, kept, flight>>

\* useIdeasStore.updateIdea
useIdeasStore_updateIdea(U) ==
  \E id \in IdsOf(cIdeas), updates \in U :
    IF ~auth.isAuthenticated
    THEN LET Updated(idea) ==
               IF idea.id = id
               THEN Spread(Spread(idea, updates), [updatedAt |-> cnow])
               ELSE idea
         IN /\ cIdeas' = [i \in 1..Len(cIdeas) |-> Updated(cIdeas[i])]
            /\ kept' = [kept EXCEPT !.ideas = [i \in 1..Len(@) |-> Updated(@[i])]]
            /\ UNCHANGED <<serverVars, auth, lsToken, cNotes, cTasks, cnow, result, loading, error, flight>>
    ELSE \E a \in Api(db, lsToken,
                      Request("/api/ideas", "PUT /:id", <<>>, id, updates, EmptyBody, FALSE)) :
           LET Updated(idea) == IF idea.id = id THEN a.res.rows[1] ELSE idea
           IN /\ Answer(a)
              /\ cIdeas' = IF Ok(a.res) THEN [i \in 1..Len(cIdeas) |-> Updated(cIdeas[i])] ELSE cIdeas
              /\ kept' = IF Ok(a.res) THEN [kept EXCEPT !.ideas = <<>>] ELSE kept
              /\ Settled("ideas", a, "Failed to update idea")
              /\ UNCHANGED <<auth, cNotes, cTasks, cnow, result, flight>>

\* useIdeasStore.deleteIdea
useIdeasStore_deleteIdea ==
  \E id \in IdsOf(cIdeas) :
    IF ~auth.isAuthenticated
    THEN /\ cIdeas' = FilterOut(cIdeas, id)
         /\ kept' = Forget(id)
         /\ UNCHANGED <<serverVars, auth, lsToken, cNotes, cTasks, cnow, result, loading, error, flight>>
    ELSE \E a \in Api(db, lsToken,
                      Request("/api/ideas", "DELETE /:id", <<>>, id, EmptyBody, EmptyBody, FALSE)) :
           /\ Answer(a)
           /\ cIdeas' = IF Ok(a.res) THEN FilterOut(cIdeas, id) ELSE cIdeas
           /\ kept' = IF Ok(a.res) THEN [kept EXCEPT !.ideas = <<>>] ELSE kept
           /\ Settled("ideas", a, "Failed to delete idea")
           /\ UNCHANGED <<auth, cNotes, cTasks, cnow, result, flight>>

\* useIdeasStore.getIdeasForSync
useIdeasStore_getIdeasForSync(ideas) == [i \in 1..Len(ideas) |-> WithoutId(ideas[i])]

----------------------------------------------------------------------------
\* The auth store and the login / register page

\* an order of import that takes the tasks first
SyncOrderTasksFirst == <<"tasks", "notes", "ideas">>

\* the order in which register imports the guest lists
SyncOrder == <<"notes", "tasks", "ideas">>

\* api.post('/<type>/sync', {<type>: list})
SyncRequest(t, list, fail) ==
  CASE t = "notes" ->
         Request("/api/notes", "POST /sync", <<>>, NoId, [notes |-> list], EmptyBody, fail)
    [] t = "tasks" ->
         Request("/api/tasks", "POST /sync", <<>>, NoId, [tasks |-> list], EmptyBody, fail)
    [] t = "ideas" ->
         Request("/api/ideas", "POST /sync", <<>>, NoId, [ideas |-> list], EmptyBody, fail)

\* Step 3 of register, from the i-th content type on: an empty list is skipped,
\* a failed import ends the sync; a is the outcome of the last call made and
\* failAt the call at which the server's database fails
RECURSIVE syncGuestData(_, _, _, _)
syncGuestData(a, guestData, failAt, i) ==
  IF i > Len(SyncOrder) THEN {a}
  ELSE LET t == SyncOrder[i] IN
       IF Len(guestData[t]) = 0 THEN syncGuestData(a, guestData, failAt, i + 1)
       ELSE UNION {IF Ok(b.res) THEN syncGuestData(b, guestData, failAt, i + 1) ELSE {b} :
                     b \in Api(a.db, a.tok, SyncRequest(t, guestData[t], failAt = t))}

Succeeded(op) == [op |-> op, success |-> TRUE, error |-> ""]
Failed(op, e) == [op |-> op, success |-> FALSE, error |-> e]

SignedIn(r) == [user |-> r.user, token |-> r.token, isAuthenticated |-> TRUE, isGuest |-> FALSE]

\* a register that signs the user out again when the sync fails
useAuthStore_registerOrSignOut(db0, tok0, auth0, form, guestData, failAt) ==
  UNION {IF ~Ok(a.res)
         THEN {[api |-> a, auth |-> auth0, result |-> Failed("register", a.res.error)]}
         ELSE {[api |-> IF Ok(b.res) THEN b ELSE [b EXCEPT !.tok = NoToken],
                auth |-> IF Ok(b.res) THEN SignedIn(a.res) ELSE auth0,
                result |-> IF Ok(b.res) THEN Succeeded("register")
                           ELSE Failed("register", b.res.error)] :
                 b \in syncGuestData([a EXCEPT !.tok = a.res.token], guestData, failAt, 1)} :
           a \in Api(db0, tok0,
                     Request("/api/auth", "POST /register", <<>>, NoId,
                             [email |-> form.email, password |-> form.password,
                              name |-> form.name],
                             EmptyBody, failAt = "register"))}

\* useAuthStore.register: the last call made, the auth store and the result
useAuthStore_register(db0, tok0, auth0, form, guestData, failAt) ==
  UNION {IF ~Ok(a.res)
         THEN {[api |-> a, auth |-> auth0, result |-> Failed("register", a.res.error)]}
         ELSE {[api |-> b,
                auth |-> SignedIn(a.res),
                result |-> IF Ok(b.res) THEN Succeeded("register")
                           ELSE Failed("register", b.res.error)] :
                 b \in syncGuestData([a EXCEPT !.tok = a.res.token], guestData, failAt, 1)} :
           a \in Api(db0, tok0,
                     Request("/api/auth", "POST /register", <<>>, NoId,
                             [email |-> form.email, password |-> form.password,
                              name |-> form.name],
                             EmptyBody, failAt = "register"))}

\* useAuthStore.login
useAuthStore_login(db0, tok0, auth0, form) ==
  {IF ~Ok(a.res)
   THEN [api |-> a, auth |-> auth0, result |-> Failed("login", a.res.error)]
   ELSE [api |-> [a EXCEPT !.tok = a.res.token], auth |-> SignedIn(a.res),
         result |-> Succeeded("login")] :
     a \in Api(db0, tok0,
               Request("/api/auth", "POST /login", <<>>, NoId,
                       [email |-> form.email, password |-> form.password],
                       EmptyBody, FALSE))}

\* what the register form holds when submitted, and where the server fails
RegisterForms == {[email |-> e, password |-> "pw1", name |-> ""] : e \in Emails}
LoginForms == {[email |-> e, password |-> p] : e \in Emails, p \in Passwords}
FailAt == {"none", "register", "notes", "tasks", "ideas"}

IsGuestRecord(x) == x.id[1] = "loc"

\* AuthPage.handleSubmit, isLogin false
handleSubmit_register(F, X) ==
  \E form \in F, failAt \in X :
    LET hasGuestData == Len(cNotes) > 0 \/ Len(cTasks) > 0 \/ Len(cIdeas) > 0
        guestData == IF hasGuestData
                     THEN [notes |-> useNotesStore_getNotesForSync(cNotes),
                           tasks |-> useTasksStore_getTasksForSync(cTasks),
                           ideas |-> useIdeasStore_getIdeasForSync(cIdeas)]
                     ELSE [notes |-> <<>>, tasks |-> <<>>, ideas |-> <<>>]
    IN \E o \in useAuthStore_register(db, lsToken, auth, form, guestData, failAt) :
         /\ Answer(o.api)
         /\ auth' = o.auth
         /\ result' = o.result
         /\ IF o.result.success /\ hasGuestData
            THEN cNotes' = <<>> /\ cTasks' = <<>> /\ cIdeas' = <<>>
            ELSE UNCHANGED <<cNotes, cTasks, cIdeas>>
         /\ kept' = [uid |-> IF o.auth # auth THEN o.auth.user.id ELSE 0,
                     notes |-> SelectSeq(cNotes, IsGuestRecord),
                     tasks |-> SelectSeq(cTasks, IsGuestRecord),
                     ideas |-> SelectSeq(cIdeas, IsGuestRecord)]
         /\ UNCHANGED <<cnow, loading, error, flight>>

\* AuthPage.handleSubmit, isLogin true
handleSubmit_login(F) ==
  \E form \in F :
    \E o \in useAuthStore_login(db, lsToken, auth, form) :
      /\ Answer(o.api)
      /\ auth' = o.auth
      /\ result' = o.result
      /\ UNCHANGED <<cNotes, cTasks, cIdeas, cnow, kept, loading, error, flight>>

\* Navigation.handleLogout: useAuthStore.logout, then the page is loaded anew
\* from the persisted stores
handleLogout ==
  /\ auth.isAuthenticated
  /\ auth' = GuestAuth
  /\ lsToken' = NoToken
  /\ loading' = [t \in Tables |-> FALSE]
  /\ error' = [t \in Tables |-> Null]
  /\ flight' = {}
  /\ UNCHANGED <<serverVars, cNotes, cTasks, cIdeas, cnow, result, kept>>

\* the client runs one more handler, up to the bound
Handled == steps < MaxSteps /\ steps' = steps + 1

NextClient ==
  \/ useNotesStore_fetchNotes /\ Handled
  \/ useNotesStore_addNote(NoteForms) /\ Handled
  \/ useNotesStore_updateNote(NoteEdits) /\ Handled
  \/ useNotesStore_deleteNote /\ Handled
  \/ useTasksStore_fetchTasks /\ Handled
  \/ useTasksStore_addTask(TaskForms) /\ Handled
  \/ useTasksStore_updateTask(TaskEdits) /\ Handled
  \/ useTasksStore_deleteTask /\ Handled
  \/ useIdeasStore_fetchIdeas /\ Handled
  \/ useIdeasStore_addIdea(IdeaForms) /\ Handled
  \/ useIdeasStore_updateIdea(IdeaEdits) /\ Handled
  \/ useIdeasStore_deleteIdea /\ Handled
  \/ handleSubmit_register(RegisterForms, FailAt) /\ Handled
  \/ handleSubmit_login(LoginForms) /\ Handled
  \/ handleLogout /\ Handled

SpecClient == Init /\ [][NextClient]_vars

----------------------------------------------------------------------------
\* The content stores with their API calls in flight (SpecStores)

MaxInFlight == 2
MaxCalls == 4

PageForms(t) ==
  CASE t = "notes" -> NoteForms
    [] t = "tasks" -> TaskForms
    [] t = "ideas" -> IdeaForms

\* handleTogglePin, toggleTask, handleSave of an edited idea
PageEdits(t, x) ==
  CASE t = "notes" -> {[isPinned |-> ~TruthyBool(x, "isPinned")]}
    [] t = "tasks" -> {[completed |-> ~TruthyBool(x, "completed")]}
    [] t = "ideas" -> IdeaEdits

StoreList(t) ==
  CASE t = "notes" -> cNotes
    [] t = "tasks" -> cTasks
    [] t = "ideas" -> cIdeas

\* the calls the authenticated branch of a store action makes:
\* api.get('/notes'), api.post('/notes', noteData), api.put(`/notes/${id}`, updates),
\* api.delete(`/notes/${id}`), and searchIdeas' api.get(`/ideas/search?query=${query}`)
StoreCalls(t) ==
  LET list == StoreList(t)
      mount == CASE t = "notes" -> "/api/notes"
                 [] t = "tasks" -> "/api/tasks"
                 [] t = "ideas" -> "/api/ideas"
      Call(op, route, id, body, query) ==
        [op |-> op, req |-> Request(mount, route, <<>>, id, body, query, FALSE)]
  IN {Call("fetch", "GET /", NoId, EmptyBody, EmptyBody)}
       \cup {Call("add", "POST /", NoId, f, EmptyBody) : f \in PageForms(t)}
       \cup UNION {{Call("update", "PUT /:id", list[i].id, u, EmptyBody) :
                      u \in PageEdits(t, list[i])} : i \in 1..Len(list)}
       \cup {Call("delete", "DELETE /:id", list[i].id, EmptyBody, EmptyBody) :
               i \in 1..Len(list)}
       \cup {Call("search", "GET /search", NoId, EmptyBody, q) :
               q \in IF t = "ideas" THEN SearchQueries ELSE {}}

NotAnswered == Err(0, "")

\* a store action up to its await: set({loading: true, error: null}), then the
\* request leaves with the token the request interceptor finds; searchIdeas
\* does so whatever the mode, the other actions in authenticated mode only
StoreCall(t) ==
  \E c \in StoreCalls(t) :
    /\ auth.isAuthenticated \/ c.op = "search"
    /\ Cardinality(flight) < MaxInFlight
    /\ loading' = [loading EXCEPT ![t] = TRUE]
    /\ error' = [error EXCEPT ![t] = Null]
    /\ flight' = flight \cup
         {[n |-> steps, store |-> t, op |-> c.op,
           req |-> [c.req EXCEPT !.hdr = IF lsToken = NoToken THEN <<>> ELSE Bearer(lsToken)],
           answered |-> FALSE, res |-> NotAnswered]}
    /\ UNCHANGED <<serverVars, auth, lsToken, cNotes, cTasks, cIdeas, cnow, result, kept>>

\* the server handles a request in flight, its database call failing or not
ServerAnswers ==
  \E c \in flight, fail \in BOOLEAN :
    /\ ~c.answered
    /\ \E o \in app(db, [c.req EXCEPT !.fail = fail]) :
         /\ o.db.nextId <= MaxRows + 1
         /\ db' = o.db /\ req' = c.req /\ res' = o.res /\ ran' = o.ran /\ reqUser' = o.uid
         /\ UNCHANGED handlers
         /\ flight' = (flight \ {c}) \cup {[c EXCEPT !.answered = TRUE, !.res = o.res]}
    /\ UNCHANGED <<auth, lsToken, cNotes, cTasks, cIdeas, cnow, result, kept, steps,
                   loading, error>>

\* the request never reaches the server: axios rejects with no response
NetworkFails ==
  \E c \in flight :
    /\ ~c.answered
    /\ flight' = (flight \ {c}) \cup {[c EXCEPT !.answered = TRUE]}
    /\ UNCHANGED <<serverVars, auth, lsToken, cNotes, cTasks, cIdeas, cnow, result, kept,
                   steps, loading, error>>

\* the fallback message of the catch block of a store action
Fallback(t, op) ==
  CASE op = "fetch" -> IF t = "notes" THEN "Failed to fetch notes"
                       ELSE IF t = "tasks" THEN "Failed to fetch tasks"
                       ELSE "Failed to fetch ideas"
    [] op = "add" -> IF t = "notes" THEN "Failed to create note"
                     ELSE IF t = "tasks" THEN "Failed to create task"
                     ELSE "Failed to create idea"
    [] op = "update" -> IF t = "notes" THEN "Failed to update note"
                        ELSE IF t = "tasks" THEN "Failed to update task"
                        ELSE "Failed to update idea"
    [] op = "delete" -> IF t = "notes" THEN "Failed to delete note"
                        ELSE IF t = "tasks" THEN "Failed to delete task"
                        ELSE "Failed to delete idea"
    [] op = "search" -> "Failed to search ideas"

\* the list a store holds after the call c succeeded
ListAfter(c, list) ==
  CASE c.op \in {"fetch", "search"} -> c.res.rows
    [] c.op = "add" -> <<c.res.rows[1]>> \o list
    [] c.op = "update" ->
         [i \in 1..Len(list) |-> IF list[i].id = c.req.id THEN c.res.rows[1] ELSE list[i]]
    [] c.op = "delete" -> FilterOut(list, c.req.id)

\* a store whose delete takes the record off the list whatever the answer
StoreReturnsOptimistic ==
  \E c \in flight :
    LET done == Ok(c.res) \/ c.op = "delete" IN
    /\ c.answered
    /\ cNotes' = IF done /\ c.store = "notes" THEN ListAfter(c, cNotes) ELSE cNotes
    /\ cTasks' = IF done /\ c.store = "tasks" THEN ListAfter(c, cTasks) ELSE cTasks
    /\ cIdeas' = IF done /\ c.store = "ideas" THEN ListAfter(c, cIdeas) ELSE cIdeas
    /\ lsToken' = IF c.res.status = 401 THEN NoToken ELSE lsToken
    /\ loading' = [loading EXCEPT ![c.store] = FALSE]
    /\ error' = IF Ok(c.res) THEN error
                ELSE [error EXCEPT ![c.store] = Message(c.res, Fallback(c.store, c.op))]
    /\ flight' = flight \ {c}
    /\ UNCHANGED <<serverVars, auth, cnow, result, kept, steps>>

\* a store action from its await on: the try block's set({..., loading: false})
\* or the catch block's set({error: message, loading: false}); before it the
\* response interceptor has removed the token and sent the browser to /login
\* on a 401, which loads the application anew from the persisted stores
StoreReturns ==
  \E c \in flight :
    /\ c.answered
    /\ cNotes' = IF Ok(c.res) /\ c.store = "notes" THEN ListAfter(c, cNotes) ELSE cNotes
    /\ cTasks' = IF Ok(c.res) /\ c.store = "tasks" THEN ListAfter(c, cTasks) ELSE cTasks
    /\ cIdeas' = IF Ok(c.res) /\ c.store = "ideas" THEN ListAfter(c, cIdeas) ELSE cIdeas
    /\ IF c.res.status = 401
       THEN /\ lsToken' = NoToken
            /\ loading' = [t \in Tables |-> FALSE]
            /\ error' = [t \in Tables |-> Null]
            /\ flight' = {}
       ELSE /\ lsToken' = lsToken
            /\ loading' = [loading EXCEPT ![c.store] = FALSE]
            /\ error' = IF Ok(c.res) THEN error
                        ELSE [error EXCEPT ![c.store] = Message(c.res, Fallback(c.store, c.op))]
            /\ flight' = flight \ {c}
    /\ UNCHANGED <<serverVars, auth, cnow, result, kept, steps>>

\* note data with nothing but a title and a content
BareNotes == {[title |-> "A", content |-> "B"]}

\* the store actions in guest mode, which run to their end at once
GuestCall ==
  /\ ~auth.isAuthenticated
  /\ \/ useNotesStore_fetchNotes
     \/ useNotesStore_addNote(NoteForms \cup BareNotes)
     \/ useNotesStore_updateNote(NoteEdits)
     \/ useNotesStore_deleteNote
     \/ useTasksStore_fetchTasks
     \/ useTasksStore_addTask(TaskForms)
     \/ useTasksStore_updateTask(TaskEdits)
     \/ useTasksStore_deleteTask
     \/ useIdeasStore_fetchIdeas
     \/ useIdeasStore_addIdea(IdeaForms)
     \/ useIdeasStore_updateIdea(IdeaEdits)
     \/ useIdeasStore_deleteIdea

StoreUsers == {[email |-> "a@x", password |-> "pw1", name |-> ""]}

\* a page runs one more handler, up to the bound
Called == steps < MaxCalls /\ steps' = steps + 1

NextStores ==
  \/ handleSubmit_register(StoreUsers, {"none"}) /\ Called
  \/ handleLogout /\ Called
  \/ GuestCall /\ Called
  \/ \E t \in Tables : StoreCall(t) /\ Called
  \/ ServerAnswers
  \/ NetworkFails
  \/ StoreReturns

SpecStores == Init /\ [][NextStores]_vars

----------------------------------------------------------------------------
\* Properties of the client (SpecClient)

\* the local list of a content type
Local(t) ==
  CASE t = "notes" -> cNotes
    [] t = "tasks" -> cTasks
    [] t = "ideas" -> cIdeas

\* a value as the server stores it: an empty string as null, a date in full
Stored(v) == IF v \in {"", Null} THEN Null ELSE ToDate(v)

\* the stored row carries the content fields of the local record k
SameNote(row, k) ==
  /\ row.title = k.title
  /\ row.content = k.content
  /\ row.color = k.color
  /\ row.isPinned = k.isPinned

SameTask(row, k) ==
  /\ row.title = k.title
  /\ row.description = Stored(k.description)
  /\ row.completed = k.completed
  /\ row.priority = k.priority
  /\ row.dueDate = Stored(k.dueDate)

SameIdea(row, k) ==
  /\ row.title = k.title
  /\ row.description = k.description
  /\ row.category = k.category
  /\ row.tags = k.tags

Same(t, row, k) ==
  CASE t = "notes" -> SameNote(row, k)
    [] t = "tasks" -> SameTask(row, k)
    [] t = "ideas" -> SameIdea(row, k)

\* the step is a Register whose registration call succeeded
Registered == db'.users # db.users

\* C2: every record a bulk import stamps with the id of the user a guest
\* registers as was created in guest mode on this client, and was not obtained
\* from another user's account.
C2_ImportsOnlyGuestRecords ==
  [][(Registered /\ ~auth.isAuthenticated) =>
       \A t \in Tables :
         db'[t] # db[t] => \A i \in 1..Len(Local(t)) : IsGuestRecord(Local(t)[i])]_vars

C5_Step ==
  (/\ Registered
   /\ result'.success
   /\ ~auth.isAuthenticated
   /\ Len(cTasks) >= 1
   /\ \A i \in 1..Len(cTasks) : IsGuestRecord(cTasks[i])) =>
    LET rows == OwnedBy(db'.tasks, auth'.user.id) IN
    /\ Cardinality(rows) = Len(cTasks)
    /\ \E f \in [1..Len(cTasks) -> rows] :
         /\ \A i, j \in 1..Len(cTasks) : i # j => f[i] # f[j]
         /\ \A i \in 1..Len(cTasks) : SameTask(f[i], cTasks[i]) /\ f[i].id[1] = "srv"
    /\ cTasks' = <<>>
    /\ \A o \in app(db', Request("/api/tasks", "GET /", Bearer(lsToken'), NoId,
                                 EmptyBody, EmptyBody, FALSE)) :
         /\ o.res.status = 200
         /\ Len(o.res.rows) = Len(cTasks)
         /\ {o.res.rows[i] : i \in 1..Len(o.res.rows)} = rows

\* C5: when a guest holding k >= 1 local tasks registers and no request fails,
\* the server holds exactly k tasks of the new user, carrying the content
\* fields of the k local tasks under identifiers of the server; the local task
\* list is empty; and a List of tasks with the client's token returns exactly
\* those k tasks.
C5_RegisterImportsTasks == [][C5_Step]_vars

\* a guest registered with two local tasks and every request succeeded
C5_Witness ==
  /\ result = Succeeded("register")
  /\ ran = "bulkCreateTasks"
  /\ Cardinality(OwnedBy(db.tasks, auth.user.id)) = 2
  /\ cTasks = <<>>

\* C6: every guest record held locally when Register was invoked is, until the
\* user deletes it, held in the client's local list or in the new user's
\* server store.
C6_GuestRecordsPreserved ==
  \A t \in Tables : \A i \in 1..Len(kept[t]) :
    \/ \E j \in 1..Len(Local(t)) : Local(t)[j] = kept[t][i]
    \/ /\ kept.uid # 0
       /\ \E row \in OwnedBy(db[t], kept.uid) : Same(t, row, kept[t][i])

\* the content types register imports before type t
ImportedBefore(t) == {SyncOrder[i] : i \in {j \in 1..Len(SyncOrder) : \E k \in j + 1..Len(SyncOrder) : SyncOrder[k] = t}}

C7_Step ==
  (Registered /\ ~result'.success) =>
    \E u \in db'.users \ db.users :
      /\ auth' = [user |-> Public(u), token |-> jwtSign(u),
                  isAuthenticated |-> TRUE, isGuest |-> FALSE]
      /\ lsToken' = jwtSign(u)
      /\ result'.op = "register" /\ result'.error # ""
      /\ cNotes' = cNotes /\ cTasks' = cTasks /\ cIdeas' = cIdeas
      /\ \A failed \in TableOf(req') : \A t \in ImportedBefore(failed) :
           Cardinality(OwnedBy(db'[t], u.id)) = Len(Local(t))

\* C7: when a bulk import fails after the registration call succeeded, nothing
\* is rolled back: the account stays created, the client stays authenticated
\* with the issued token, the types imported before the failure stay stored,
\* Register reports the failure, and no local list is cleared.
C7_SyncFailureKeepsAll == [][C7_Step]_vars

\* the import of the tasks failed after the notes had been imported
C7_Witness ==
  /\ result.op = "register" /\ ~result.success
  /\ ran = "bulkCreateTasks" /\ res.status = 500
  /\ auth.isAuthenticated
  /\ OwnedBy(db.notes, auth.user.id) # {}
  /\ Len(cNotes) > 0 /\ Len(cTasks) > 0

----------------------------------------------------------------------------
\* Deletion (Spec)

\* the identifiers of the rows of a table
RowIds(rows) == {x.id : x \in rows}

C11_Step ==
  /\ (ran' \in DeleteHandlers /\ res'.status = 200) =>
       \A t \in TableOf(req') :
         /\ req'.id \in RowIds(db[t])
         /\ req'.id \notin RowIds(db'[t])
  /\ ran' \in GetHandlers \cup UpdateHandlers \cup DeleteHandlers =>
       \A t \in TableOf(req') :
         req'.id \notin RowIds(db[t]) => (res'.status = 404 /\ db' = db)
  /\ \A t \in Tables : \A x \in db'[t] :
       x.id \notin RowIds(db[t]) =>
         /\ ran' \in CreateHandlers \cup BulkHandlers
         /\ x.id[2] >= db.nextId

\* C11: a successful Delete removes the record for good: a Get, Update or
\* Delete of an identifier that is not stored answers 404 and changes nothing,
\* and a record appears only by Create or BulkImport, under an identifier
\* that was never issued before (so never under a deleted one).
C11_DeletedStaysDeleted == [][C11_Step]_vars

\* the only registered user deleted a record (its identifier was issued and
\* is no longer stored) and asked to delete it again
C11_Witness ==
  /\ Cardinality(db.users) = 1
  /\ ran \in DeleteHandlers
  /\ res.status = 404
  /\ req.id[2] < db.nextId
  /\ \A t \in Tables : req.id \notin RowIds(db[t])

----------------------------------------------------------------------------
\* Bulk import (SpecBulk)

\* the bodies of POST /sync: no array, a JSON object in its place, an empty
\* array, one record, and the same record twice
SyncBodies(field, B) ==
  UNION {{EmptyBody,
          [f \in {field} |-> 0 :> b[field][1]],
          [f \in {field} |-> <<>>],
          [f \in {field} |-> <<b[field][1]>>],
          [f \in {field} |-> <<b[field][1], b[field][1]>>]} : b \in B}

NextBulk ==
  \/ Register(SignUps) /\ UNCHANGED clientVars
  \/ BulkImport("/api/notes", Callers, SyncBodies("notes", NoteSyncs)) /\ UNCHANGED clientVars
  \/ BulkImport("/api/tasks", Callers, SyncBodies("tasks", TaskSyncs)) /\ UNCHANGED clientVars
  \/ BulkImport("/api/ideas", Callers, SyncBodies("ideas", IdeaSyncs)) /\ UNCHANGED clientVars

SpecBulk == Init /\ [][NextBulk]_vars

\* the body carries a non-empty array under the name of table t
HasRecords(b, t) == Has(b, t) /\ IsArray(b[t]) /\ Len(b[t]) > 0

C12_Step ==
  ran' \in BulkHandlers =>
    \A t \in TableOf(req') :
      IF HasRecords(req'.body, t)
      THEN /\ res'.status = 201
           /\ res'.count = Len(req'.body[t])
           /\ db[t] \subseteq db'[t]
           /\ Cardinality(db'[t] \ db[t]) = Len(req'.body[t])
           /\ \A x \in db'[t] \ db[t] :
                /\ x.userId = reqUser'
                /\ x.id[1] = "srv"
                /\ \A o \in Tables : x.id \notin RowIds(db[o])
           /\ \A o \in Tables \ {t} : db'[o] = db[o]
           /\ db'.users = db.users
      ELSE /\ res'.status = 400
           /\ db' = db

\* C12: BulkImport by caller A of a non-empty array of N valid records
\* inserts exactly N new rows, each owned by A under an identifier the server
\* assigned, and returns count = N; with no array, a non-array or an empty
\* array it answers 400 and inserts nothing.
C12_BulkImportInsertsAll == [][C12_Step]_vars

\* an import of two equal records stored two rows
C12_Witness ==
  /\ ran \in BulkHandlers
  /\ res.status = 201
  /\ res.count = 2
  /\ \E t \in TableOf(req) :
       /\ Len(req.body[t]) = 2
       /\ req.body[t][1] = req.body[t][2]
       /\ Cardinality({x \in db[t] : x.userId = reqUser}) >= 2

----------------------------------------------------------------------------
\* Properties of the content stores (SpecStores)

C13_Step ==
  (/\ ~auth.isAuthenticated
   /\ cNotes = <<>>
   /\ cNotes' # <<>>
   /\ \E d \in BareNotes : cNotes'[1].title = d.title /\ cNotes'[1].content = d.content)
  => /\ Len(cNotes') = 1
     /\ cNotes'[1].id = generateId(cnow)
     /\ Has(cNotes'[1], "color") /\ cNotes'[1].color \in {"#ffffff", "#3b82f6"}
     /\ ~TruthyBool(cNotes'[1], "isPinned")
     /\ Has(cNotes'[1], "createdAt") /\ Has(cNotes'[1], "updatedAt")

\* C13: a guest-mode Add of a note given only a title and a content to an
\* empty notes store yields a one-element list whose record has a generated
\* id, a default color, is not pinned and has created/updated timestamps.
C13_GuestAddAppliesDefaults == [][C13_Step]_vars

\* the call that returns to its store action in this step (a logout leaves
\* the page, and the calls in flight never return)
Returning == {c \in flight : c.answered /\ flight' = flight \ {c} /\ auth' = auth}

C14_Step ==
  /\ \A c \in Returning :
       (c.op \in {"fetch", "add", "update", "delete"} /\ c.res.status # 401) =>
         /\ loading'[c.store] = FALSE
         /\ Ok(c.res) => error'[c.store] = error[c.store]
         /\ ~Ok(c.res) =>
              /\ error'[c.store] # Null
              /\ error'[c.store] \in {c.res.error, Fallback(c.store, c.op)}
              /\ cNotes' = cNotes /\ cTasks' = cTasks /\ cIdeas' = cIdeas
  /\ flight' \ flight # {} => (cNotes' = cNotes /\ cTasks' = cTasks /\ cIdeas' = cIdeas)

C15_Step ==
  ~auth.isAuthenticated =>
    /\ {c.n : c \in flight'} \subseteq {c.n : c \in flight}
    /\ \A t \in Tables : loading'[t] => loading[t]

\* C15: while the client is in guest mode no operation of the notes, tasks or
\* ideas store (Fetch, Add, Update, Delete, toggle, Search) sends a request
\* to the API, and none sets loading to true.
C15_GuestSendsNothing == [][C15_Step]_vars

----------------------------------------------------------------------------
\* Ideas search (SpecSearch)

\* ideas that match "blue" by a tag in another case, by the description, and
\* by a tag in the same case
TaggedIdeas ==
  {[title |-> "i1", description |-> "d1", tags |-> <<"Blue">>],
   [title |-> "i2", description |-> "BLUE sky"],
   [title |-> "i3", description |-> "d3", tags |-> <<"work", "blue">>]}

NextSearch ==
  \/ Register(SignUps) /\ UNCHANGED clientVars
  \/ Create("/api/ideas", Callers, TaggedIdeas) /\ UNCHANGED clientVars
  \/ Delete("/api/ideas", Callers, Ids) /\ UNCHANGED clientVars
  \/ Search(Callers, SearchQueries \cup {EmptyBody}) /\ UNCHANGED clientVars

SpecSearch == Init /\ [][NextSearch]_vars

\* idea i matches query q with every comparison made without regard to case
MatchesAnyCase(i, q) ==
  \/ Contains(Lower(i.title), Lower(q))
  \/ Contains(Lower(i.description), Lower(q))
  \/ \E k \in 1..Len(i.tags) : Lower(i.tags[k]) = Lower(q)

\* C16: Search with query q returns exactly the caller's ideas whose title or
\* description contains q, or one of whose tags equals q, all compared
\* without regard to case, newest first; a missing query is answered 400.
C16_SearchIgnoresCase ==
  ran = "searchIdeas" =>
    IF ~TruthyStr(req.query, "query") THEN res.status = 400
    ELSE /\ res.status = 200
         /\ {res.rows[k] : k \in 1..Len(res.rows)} =
              {i \in db.ideas : i.userId = reqUser /\ MatchesAnyCase(i, req.query.query)}
         /\ \A j, k \in 1..Len(res.rows) :
              j < k => res.rows[j].createdAt > res.rows[k].createdAt

----------------------------------------------------------------------------
\* Create (SpecCreate)

\* bodies of POST /: a required field missing, a required field empty, the
\* required fields alone, and every field given
CreateBodies(t) ==
  CASE t = "notes" ->
         {[content |-> "c1"], [title |-> "", content |-> "c1"], [title |-> "n1"],
          [title |-> "n1", content |-> ""], [title |-> "n1", content |-> "c1"],
          [title |-> "n1", content |-> "c1", color |-> "#3b82f6", isPinned |-> TRUE]}
    [] t = "tasks" ->
         {[description |-> "d1"], [title |-> ""], [title |-> "t1"],
          [title |-> "t1", description |-> "d1", completed |-> TRUE,
           priority |-> "high", dueDate |-> "2024-01-01"]}
    [] t = "ideas" ->
         {[title |-> "i1"], [title |-> "", description |-> "d1"],
          [title |-> "i1", description |-> ""], [title |-> "i1", description |-> "d1"],
          [title |-> "i1", description |-> "d1", category |-> "work", tags |-> <<"blue">>]}

NextCreate ==
  \/ Register(SignUps) /\ UNCHANGED clientVars
  \/ Create("/api/notes", Callers, CreateBodies("notes")) /\ UNCHANGED clientVars
  \/ Create("/api/tasks", Callers, CreateBodies("tasks")) /\ UNCHANGED clientVars
  \/ Create("/api/ideas", Callers, CreateBodies("ideas")) /\ UNCHANGED clientVars

SpecCreate == Init /\ [][NextCreate]_vars

\* the fields Create requires of a record of table t
RequiredFields(t) ==
  CASE t = "notes" -> {"title", "content"}
    [] t = "tasks" -> {"title"}
    [] t = "ideas" -> {"title", "description"}

\* whether row x has the default of the optional field f
HasDefault(x, f) ==
  CASE f = "color" -> x.color = "#ffffff"
    [] f = "isPinned" -> x.isPinned = FALSE
    [] f = "completed" -> x.completed = FALSE
    [] f = "priority" -> x.priority = "medium"
    [] f = "description" -> x.description = Null
    [] f = "dueDate" -> x.dueDate = Null
    [] f = "category" -> x.category = "general"
    [] f = "tags" -> x.tags = <<>>

C17_Step ==
  ran' \in CreateHandlers =>
    \A t \in TableOf(req') :
      IF \E f \in RequiredFields(t) : ~Has(req'.body, f) \/ req'.body[f] = ""
      THEN /\ res'.status = 400
           /\ db' = db
      ELSE /\ res'.status = 201
           /\ Len(res'.rows) = 1
           /\ res'.rows[1] \notin db[t]
           /\ db'[t] = db[t] \cup {res'.rows[1]}
           /\ res'.rows[1].userId = reqUser'
           /\ \A f \in RequiredFields(t) : res'.rows[1][f] = req'.body[f]
           /\ \A f \in (ContentFields(t) \ RequiredFields(t)) \ DOMAIN req'.body :
                HasDefault(res'.rows[1], f)
           /\ \A o \in Tables \ {t} : db'[o] = db[o]
           /\ db'.users = db.users

\* C17: Create answers 400 and stores nothing when a required field is
\* missing or empty; otherwise it stores exactly one new record owned by the
\* caller, with the defaults for the optional fields left out, and answers
\* 201 with that record.
C17_CreateValidatesAndDefaults == [][C17_Step]_vars

\* a record was created from its required fields alone
C17_Witness ==
  /\ ran \in CreateHandlers
  /\ res.status = 201
  /\ \E t \in TableOf(req) :
       /\ DOMAIN req.body = RequiredFields(t)
       /\ res.rows[1] \in db[t]

----------------------------------------------------------------------------
\* Stored titles (SpecTitles)

\* an update that empties the title, and an import of a record with an
\* empty title
EmptyTitle == [title |-> ""]
EmptyTitleSyncs(t) ==
  CASE t = "notes" -> {[notes |-> <<[title |-> "", content |-> "c1"]>>]}
    [] t = "tasks" -> {[tasks |-> <<[title |-> ""]>>]}
    [] t = "ideas" -> {[ideas |-> <<[title |-> "", description |-> "d1"]>>]}

NextTitles ==
  \/ Register(SignUps) /\ UNCHANGED clientVars
  \/ Create("/api/notes", Callers, CreateBodies("notes")) /\ UNCHANGED clientVars
  \/ Update("/api/notes", Callers, Ids, NoteUpdates \cup {EmptyTitle}) /\ UNCHANGED clientVars
  \/ BulkImport("/api/notes", Callers, NoteSyncs \cup EmptyTitleSyncs("notes"))
       /\ UNCHANGED clientVars
  \/ Create("/api/tasks", Callers, CreateBodies("tasks")) /\ UNCHANGED clientVars
  \/ Update("/api/tasks", Callers, Ids, TaskUpdates \cup {EmptyTitle}) /\ UNCHANGED clientVars
  \/ BulkImport("/api/tasks", Callers, TaskSyncs \cup EmptyTitleSyncs("tasks"))
       /\ UNCHANGED clientVars
  \/ Create("/api/ideas", Callers, CreateBodies("ideas")) /\ UNCHANGED clientVars
  \/ Update("/api/ideas", Callers, Ids, IdeaUpdates \cup {EmptyTitle}) /\ UNCHANGED clientVars
  \/ BulkImport("/api/ideas", Callers, IdeaSyncs \cup EmptyTitleSyncs("ideas"))
       /\ UNCHANGED clientVars

SpecTitles == Init /\ [][NextTitles]_vars

\* C18: in every server state reachable by Create, Update and BulkImport
\* calls, every stored note has a non-empty title and a non-empty content,
\* and every stored task and idea has a non-empty title.
C18_StoredTitlesNonEmpty ==
  /\ \A n \in db.notes : n.title \notin {"", Null} /\ n.content \notin {"", Null}
  /\ \A x \in db.tasks \cup db.ideas : x.title \notin {"", Null}

----------------------------------------------------------------------------
\* Requests that interleave between a handler's check and its write (SpecRace)

MaxRacing == 2

\* the handlers that look a row up, await, and then write:
\* register (findUnique, create), updateX (findFirst, update),
\* deleteX (findFirst, delete)
CheckThenWrite == {"register"} \cup UpdateHandlers \cup DeleteHandlers

\* the write of the handler throws: user.create on an email that is stored
\* by now (the unique index findUnique relies on), update/delete where: {id}
\* on a row that is gone by now
WriteThrows(db0, r) ==
  IF r.mount = "/api/auth" THEN \E u \in db0.users : u.email = r.body.email
  ELSE \A t \in TableOf(r) : r.id \notin {x.id : x \in db0[t]}

\* } catch (error) { res.status(500).json({error: ...}) }
CatchMessage(name) ==
  CASE name = "register" -> "Failed to register user"
    [] name = "updateNote" -> "Failed to update note"
    [] name = "deleteNote" -> "Failed to delete note"
    [] name = "updateTask" -> "Failed to update task"
    [] name = "deleteTask" -> "Failed to delete task"
    [] name = "updateIdea" -> "Failed to update idea"
    [] name = "deleteIdea" -> "Failed to delete idea"

\* a request arrives and its handler runs up to the await before its write:
\* a handler that answers from its check is done, the others go on later
HandlerChecks(R) ==
  \E r \in R :
    \E o \in app(db, r) :
      LET h == [n |-> Cardinality(handlers) + 1, req |-> r, name |-> o.ran, uid |-> o.uid,
                passed |-> Ok(o.res), threw |-> FALSE, done |-> FALSE, res |-> Err(0, "")]
      IN /\ Cardinality(handlers) < MaxRacing
         /\ o.ran \in CheckThenWrite
         /\ IF Ok(o.res)
            THEN /\ handlers' = handlers \cup {h}
                 /\ UNCHANGED <<db, req, res, ran, reqUser>>
            ELSE /\ req' = r /\ res' = o.res /\ ran' = o.ran /\ reqUser' = o.uid
                 /\ handlers' = handlers \cup {[h EXCEPT !.done = TRUE, !.res = o.res]}
                 /\ UNCHANGED db

\* the handler's write runs on the database as it is by now, and the handler
\* answers: from its try block, or from its catch block if the write threw
HandlerWrites ==
  \E h \in handlers :
    /\ ~h.done
    /\ IF WriteThrows(db, h.req)
       THEN /\ req' = h.req /\ res' = Err(500, CatchMessage(h.name))
            /\ ran' = h.name /\ reqUser' = h.uid
            /\ handlers' = (handlers \ {h}) \cup
                 {[h EXCEPT !.done = TRUE, !.threw = TRUE,
                            !.res = Err(500, CatchMessage(h.name))]}
            /\ UNCHANGED db
       ELSE \E o \in app(db, h.req) :
              /\ db' = o.db
              /\ req' = h.req /\ res' = o.res /\ ran' = h.name /\ reqUser' = h.uid
              /\ handlers' = (handlers \ {h}) \cup {[h EXCEPT !.done = TRUE, !.res = o.res]}

RaceRequests ==
  {Request("/api/auth", "POST /register", <<>>, NoId, b, EmptyBody, FALSE) : b \in SignUps}
    \cup {Request("/api/notes", "DELETE /:id", h, id, EmptyBody, EmptyBody, FALSE) :
            h \in Callers, id \in FirstId}
    \cup {Request("/api/notes", "PUT /:id", h, id, b, EmptyBody, FALSE) :
            h \in Callers, id \in FirstId, b \in {[title |-> "n2"]}}

NextRace ==
  \/ Register(SignUps) /\ UNCHANGED clientVars
  \/ Create("/api/notes", Callers, NoteBodies) /\ UNCHANGED clientVars
  \/ HandlerChecks(RaceRequests) /\ UNCHANGED clientVars
  \/ HandlerWrites /\ UNCHANGED clientVars

SpecRace == Init /\ [][NextRace]_vars

\* C19: when two Register requests for the same, not yet registered email
\* both pass the existence check before either stores the user, exactly one
\* user is stored for that email, one request is answered 201 with a token
\* and the other 400.
C19_RacingRegistersConflict ==
  \A g, h \in handlers :
    (/\ g.n # h.n
     /\ g.name = "register" /\ h.name = "register"
     /\ g.req.body.email = h.req.body.email
     /\ g.passed /\ h.passed
     /\ g.done /\ h.done)
    => /\ Cardinality({u \in db.users : u.email = g.req.body.email}) = 1
       /\ {g.res.status, h.res.status} = {201, 400}
       /\ \A k \in {g, h} : k.res.status = 201 => k.res.token # NoToken

\* C20: when two requests of the same owner on the same record (Delete with
\* Delete, or Delete with Update) both pass the ownership check before either
\* writes, the request whose write finds the record already removed is
\* answered 404, and the record is removed exactly once.
C20_RacingWriteAnswersNotFound ==
  \A g, h \in handlers :
    (/\ g.n # h.n
     /\ g.name \in DeleteHandlers /\ h.name \in UpdateHandlers \cup DeleteHandlers
     /\ g.uid = h.uid /\ g.req.mount = h.req.mount /\ g.req.id = h.req.id
     /\ g.passed /\ h.passed
     /\ g.done /\ h.done
     /\ h.threw)
    => /\ h.res.status = 404
       /\ g.res.status = 200
       /\ \A t \in TableOf(g.req) : g.req.id \notin RowIds(db[t])

----------------------------------------------------------------------------
\* Order of the local lists (SpecClient)

\* the records of the list come newest first; creation times are compared
\* between records stamped by the same clock (the browser's or the database's)
NewestFirst(list) ==
  \A i, j \in 1..Len(list) :
    i < j /\ IsGuestRecord(list[i]) = IsGuestRecord(list[j])
      => list[i].createdAt >= list[j].createdAt

\* C21: in each content store, after any sequence of Fetch, Add, Update and
\* Delete in guest or authenticated mode, the local list is ordered
\* most-recent-first (descending creation time).
C21_LocalListNewestFirst ==
  NewestFirst(cNotes) /\ NewestFirst(cTasks) /\ NewestFirst(cIdeas)

----------------------------------------------------------------------------
\* Register and login followed await by await (SpecRegister)

MaxSubmits == 3
MaxSynced == 4

\* the guest lists the persisted stores (znote-notes, znote-tasks, znote-ideas)
\* hold when the application is loaded
PersistedGuest(t) ==
  CASE t = "notes" ->
         {<<>>} \cup {<<Spread(Spread([id |-> generateId(1)], f),
                               [createdAt |-> 1, updatedAt |-> 1])>> : f \in NoteForms}
    [] t = "tasks" ->
         {<<>>} \cup {<<Spread(Spread([id |-> generateId(2)], f),
                               [completed |-> FALSE, createdAt |-> 2, updatedAt |-> 2])>> :
                        f \in TaskForms}
    [] t = "ideas" ->
         {<<>>} \cup {<<Spread(Spread([id |-> generateId(3)], f),
                               [createdAt |-> 3, updatedAt |-> 3])>> : f \in IdeaForms}

\* the application is loaded by a guest who may have used it before
InitRegister ==
  /\ db = EmptyDb
  /\ req = NoRequest
  /\ res = Err(0, "")
  /\ ran = "none"
  /\ reqUser = 0
  /\ handlers = {}
  /\ auth = GuestAuth
  /\ lsToken = NoToken
  /\ cNotes \in PersistedGuest("notes")
  /\ cTasks \in PersistedGuest("tasks")
  /\ cIdeas \in PersistedGuest("ideas")
  /\ cnow = 4
  /\ result = NoResult
  /\ kept = NoKept
  /\ steps = 0
  /\ loading = [t \in Tables |-> FALSE]
  /\ error = [t \in Tables |-> Null]
  /\ flight = {}

\* a call of the auth store that has left the browser: the request with the
\* header the request interceptor gave it, and what the handler that awaits
\* it holds (guestData and the page's hasGuestData)
AuthCall(op, r, tok, guestData, hasGuestData) ==
  [n |-> steps, store |-> "auth", op |-> op,
   req |-> [r EXCEPT !.hdr = IF tok = NoToken THEN <<>> ELSE Bearer(tok)],
   answered |-> FALSE, res |-> NotAnswered,
   guestData |-> guestData, hasGuestData |-> hasGuestData]

NoGuestData == [notes |-> <<>>, tasks |-> <<>>, ideas |-> <<>>]

\* AuthPage.handleSubmit, isLogin false, up to the await of
\* api.post('/auth/register'); the form is disabled while a call is awaited
RegisterCall(F) ==
  \E form \in F :
    LET hasGuestData == Len(cNotes) > 0 \/ Len(cTasks) > 0 \/ Len(cIdeas) > 0
        guestData == IF hasGuestData
                     THEN [notes |-> useNotesStore_getNotesForSync(cNotes),
                           tasks |-> useTasksStore_getTasksForSync(cTasks),
                           ideas |-> useIdeasStore_getIdeasForSync(cIdeas)]
                     ELSE NoGuestData
    IN /\ flight = {}
       /\ flight' = {AuthCall("register",
                              Request("/api/auth", "POST /register", <<>>, NoId,
                                      [email |-> form.email, password |-> form.password,
                                       name |-> form.name],
                                      EmptyBody, FALSE),
                              lsToken, guestData, hasGuestData)}
       /\ UNCHANGED <<serverVars, auth, lsToken, cNotes, cTasks, cIdeas, cnow, result, kept,
                      loading, error>>

\* the place of a call of register in its sequence of awaits
Pos(op) ==
  CASE op = "register" -> 0
    [] op = "notes" -> 1
    [] op = "tasks" -> 2
    [] op = "ideas" -> 3
    [] OTHER -> 4

\* the imports register has still to make after the call c: from every list
PendingAll(c) == {i \in 1..Len(SyncOrder) : i > Pos(c.op)}

\* the imports register has still to make after the call c:
\* if (notes && notes.length > 0) ..., tasks and ideas alike
Pending(c) ==
  {i \in 1..Len(SyncOrder) : i > Pos(c.op) /\ Len(c.guestData[SyncOrder[i]]) > 0}

\* useAuthStore.register and AuthPage.handleSubmit from an await on: after the
\* registration call set() and localStorage.setItem('znote_token'); then the
\* next import, or the return and the page's clearNotes / clearTasks /
\* clearIdeas; a rejected call goes to the catch block (a 401 through the
\* response interceptor first, which finds the browser on /login)
RegisterResumes ==
  \E c \in flight :
    LET auth1 == IF c.op = "register" THEN SignedIn(c.res) ELSE auth
        tok1 == IF c.op = "register" THEN c.res.token ELSE lsToken
        next == SyncOrder[CHOOSE i \in Pending(c) : \A j \in Pending(c) : i <= j]
    IN /\ c.answered
       /\ c.op \in {"register"} \cup Tables
       /\ IF ~Ok(c.res)
          THEN /\ result' = Failed("register", Message(c.res, "Registration failed"))
               /\ lsToken' = IF c.res.status = 401 THEN NoToken ELSE lsToken
               /\ flight' = {}
               /\ UNCHANGED <<auth, cNotes, cTasks, cIdeas>>
          ELSE /\ auth' = auth1
               /\ lsToken' = tok1
               /\ IF Pending(c) # {}
                  THEN /\ flight' = {AuthCall(next, SyncRequest(next, c.guestData[next], FALSE),
                                              tok1, c.guestData, c.hasGuestData)}
                       /\ UNCHANGED <<result, cNotes, cTasks, cIdeas>>
                  ELSE /\ flight' = {}
                       /\ result' = Succeeded("register")
                       /\ IF c.hasGuestData
                          THEN cNotes' = <<>> /\ cTasks' = <<>> /\ cIdeas' = <<>>
                          ELSE UNCHANGED <<cNotes, cTasks, cIdeas>>
       /\ UNCHANGED <<serverVars, cnow, kept, steps, loading, error>>

\* AuthPage.handleSubmit, isLogin true, up to the await of api.post('/auth/login')
LoginCall(F) ==
  \E form \in F :
    /\ flight = {}
    /\ flight' = {AuthCall("login",
                           Request("/api/auth", "POST /login", <<>>, NoId,
                                   [email |-> form.email, password |-> form.password],
                                   EmptyBody, FALSE),
                           lsToken, NoGuestData, FALSE)}
    /\ UNCHANGED <<serverVars, auth, lsToken, cNotes, cTasks, cIdeas, cnow, result, kept,
                   loading, error>>

\* useAuthStore.login from its await on
LoginResumes ==
  \E c \in flight :
    /\ c.answered
    /\ c.op = "login"
    /\ IF ~Ok(c.res)
       THEN /\ result' = Failed("login", Message(c.res, "Login failed"))
            /\ lsToken' = IF c.res.status = 401 THEN NoToken ELSE lsToken
            /\ UNCHANGED auth
       ELSE /\ auth' = SignedIn(c.res)
            /\ lsToken' = c.res.token
            /\ result' = Succeeded("login")
    /\ flight' = {}
    /\ UNCHANGED <<serverVars, cNotes, cTasks, cIdeas, cnow, kept, steps, loading, error>>

\* the server handles the call in flight, its database call failing or not
AuthServerAnswers ==
  \E c \in flight, fail \in BOOLEAN :
    /\ ~c.answered
    /\ \E o \in app(db, [c.req EXCEPT !.fail = fail]) :
         /\ o.db.nextId <= MaxSynced + 1
         /\ db' = o.db /\ req' = c.req /\ res' = o.res /\ ran' = o.ran /\ reqUser' = o.uid
         /\ UNCHANGED handlers
         /\ flight' = (flight \ {c}) \cup {[c EXCEPT !.answered = TRUE, !.res = o.res]}
    /\ UNCHANGED <<auth, lsToken, cNotes, cTasks, cIdeas, cnow, result, kept, steps,
                   loading, error>>

\* a handler of the notes, tasks or ideas page, run to its end
PageCall ==
  /\ flight = {}
  /\ \/ useNotesStore_fetchNotes
     \/ useNotesStore_addNote(NoteForms)
     \/ useNotesStore_updateNote(NoteEdits)
     \/ useNotesStore_deleteNote
     \/ useTasksStore_fetchTasks
     \/ useTasksStore_addTask(TaskForms)
     \/ useTasksStore_updateTask(TaskEdits)
     \/ useTasksStore_deleteTask
     \/ useIdeasStore_fetchIdeas
     \/ useIdeasStore_addIdea(IdeaForms)
     \/ useIdeasStore_updateIdea(IdeaEdits)
     \/ useIdeasStore_deleteIdea

\* the user submits a form or uses a page once more, up to the bound
Submitted == steps < MaxSubmits /\ steps' = steps + 1

NextRegister ==
  \/ RegisterCall(RegisterForms) /\ Submitted
  \/ LoginCall(LoginForms) /\ Submitted
  \/ PageCall /\ Submitted
  \/ handleLogout /\ Submitted
  \/ AuthServerAnswers
  \/ NetworkFails
  \/ RegisterResumes
  \/ LoginResumes

SpecRegister == InitRegister /\ [][NextRegister]_vars

----------------------------------------------------------------------------
\* Properties of register and login (SpecRegister)

\* the calls that leave the browser in this step
Leaving == {c \in flight' \ flight : ~c.answered}

\* the bulk import routes
IsSync(r) == r.route = "POST /sync"

C22_Step ==
  /\ \A c \in Leaving :
       IsSync(c.req) =>
         /\ c.op \in Tables
         /\ \E p \in flight : p.answered /\ Ok(p.res) /\ Pos(p.op) < Pos(c.op)
         /\ auth'.isAuthenticated
         /\ \E u \in db.users : u.id = auth'.user.id /\ c.req.hdr = Bearer(jwtSign(u))
         /\ Len(StoreList(c.op)) > 0
         /\ Len(c.req.body[c.op]) = Len(StoreList(c.op))
  /\ IsSync(req') /\ <<req', res', db'>> # <<req, res, db>> =>
       \E c \in flight : c.op \in Tables /\ c.req = req'

----------------------------------------------------------------------------
\* List (SpecList)

\* records to list: notes pinned or not, tasks with and without a due date,
\* ideas of two categories
ListBodies(t) ==
  CASE t = "notes" ->
         {[title |-> "n1", content |-> "c1"],
          [title |-> "n1", content |-> "c1", isPinned |-> TRUE]}
    [] t = "tasks" ->
         {[title |-> "t1"], [title |-> "t1", dueDate |-> "2024-01-01"],
          [title |-> "t1", dueDate |-> "2024-02-01"]}
    [] t = "ideas" ->
         {[title |-> "i1", description |-> "d1"],
          [title |-> "i1", description |-> "d1", category |-> "work"]}

NextList ==
  \/ Register(SignUps) /\ UNCHANGED clientVars
  \/ Create("/api/notes", Callers, ListBodies("notes")) /\ UNCHANGED clientVars
  \/ Create("/api/tasks", Callers, ListBodies("tasks")) /\ UNCHANGED clientVars
  \/ Create("/api/ideas", Callers, ListBodies("ideas")) /\ UNCHANGED clientVars
  \/ Update("/api/tasks", Callers, Ids, {[completed |-> TRUE]}) /\ UNCHANGED clientVars
  \/ List("/api/notes", Callers, {EmptyBody}) /\ UNCHANGED clientVars
  \/ List("/api/tasks", Callers, {EmptyBody}) /\ UNCHANGED clientVars
  \/ List("/api/ideas", Callers, IdeaQueries) /\ UNCHANGED clientVars

SpecList == Init /\ [][NextList]_vars

\* the records List is to return: the caller's, of the requested category
ToList ==
  {x \in UNION {db[t] : t \in TableOf(req)} :
     /\ x.userId = reqUser
     /\ ran = "getIdeas" /\ TruthyStr(req.query, "category") => x.category = req.query.category}

\* a must stand before b in the list: notes pinned-first then newest-first;
\* tasks incomplete-first, then soonest due date (where both have one, or
\* neither), then newest-first; ideas newest-first
ListedBefore(a, b) ==
  CASE ran = "getNotes" ->
         \/ a.isPinned /\ ~b.isPinned
         \/ a.isPinned = b.isPinned /\ a.createdAt > b.createdAt
    [] ran = "getTasks" ->
         \/ ~a.completed /\ b.completed
         \/ /\ a.completed = b.completed
            /\ a.dueDate # Null /\ b.dueDate # Null
            /\ \/ a.dueDate = "2024-01-01T00:00:00.000Z" /\ b.dueDate = "2024-02-01T00:00:00.000Z"
               \/ a.dueDate = b.dueDate /\ a.createdAt > b.createdAt
         \/ /\ a.completed = b.completed
            /\ a.dueDate = Null /\ b.dueDate = Null
            /\ a.createdAt > b.createdAt
    [] ran = "getIdeas" -> a.createdAt > b.createdAt

\* C23: List returns all and only the caller's records, ordered: notes
\* pinned-first then newest-first; tasks incomplete-first, then soonest due
\* date, then newest-first; ideas newest-first, restricted to the requested
\* category when one is given.
C23_ListReturnsOwnOrdered ==
  ran \in {"getNotes", "getTasks", "getIdeas"} /\ res.status = 200 =>
    /\ {res.rows[i] : i \in 1..Len(res.rows)} = ToList
    /\ Len(res.rows) = Cardinality(ToList)
    /\ \A i, j \in 1..Len(res.rows) : i < j => ~ListedBefore(res.rows[j], res.rows[i])

\* the caller's two tasks were listed, the one created first and due sooner
\* before the newer one
C23_Witness ==
  /\ ran = "getTasks" /\ res.status = 200 /\ Len(res.rows) = 2
  /\ res.rows[1].dueDate = "2024-01-01T00:00:00.000Z"
  /\ res.rows[2].dueDate = "2024-02-01T00:00:00.000Z"
  /\ res.rows[1].createdAt < res.rows[2].createdAt

----------------------------------------------------------------------------
\* Failing database calls (SpecFail)

\* the requests to the auth routes with header h, the database failing or not
AuthRequests(h, fail) ==
  {Request("/api/auth", "POST /register", h, NoId, b, EmptyBody, fail) :
     b \in {[email |-> "a@x", password |-> "pw1"], [email |-> "a@x"]}}
    \cup {Request("/api/auth", "POST /login", h, NoId, b, EmptyBody, fail) :
            b \in {[email |-> "a@x", password |-> p] : p \in Passwords}
                    \cup {[password |-> "pw1"]}}
    \cup {Request("/api/auth", "GET /profile", h, NoId, EmptyBody, EmptyBody, fail)}

\* app.use('/api/notes', notesRoutes), tasks and ideas alike
StoreMount(t) ==
  CASE t = "notes" -> "/api/notes"
    [] t = "tasks" -> "/api/tasks"
    [] t = "ideas" -> "/api/ideas"

\* the requests to the routes of content type t
ContentRequests(t, h, fail) ==
  LET mount == StoreMount(t)
      bodies == CASE t = "notes" -> NoteBodies
                  [] t = "tasks" -> TaskBodies
                  [] t = "ideas" -> IdeaBodies
      updates == CASE t = "notes" -> NoteEdits
                   [] t = "tasks" -> TaskEdits
                   [] t = "ideas" -> IdeaEdits
      syncs == CASE t = "notes" -> NoteSyncs
                 [] t = "tasks" -> TaskSyncs
                 [] t = "ideas" -> IdeaSyncs
  IN {Request(mount, "GET /", h, NoId, EmptyBody, EmptyBody, fail)}
       \cup {Request(mount, "GET /:id", h, id, EmptyBody, EmptyBody, fail) : id \in Ids}
       \cup {Request(mount, "POST /", h, NoId, b, EmptyBody, fail) : b \in bodies \cup {EmptyBody}}
       \cup {Request(mount, "PUT /:id", h, id, b, EmptyBody, fail) : id \in Ids, b \in updates}
       \cup {Request(mount, "DELETE /:id", h, id, EmptyBody, EmptyBody, fail) : id \in Ids}
       \cup {Request(mount, "POST /sync", h, NoId, b, EmptyBody, fail) :
               b \in syncs \cup {EmptyBody}}
       \cup {Request(mount, "GET /search", h, NoId, EmptyBody, q, fail) :
               q \in IF t = "ideas" THEN SearchQueries \cup {EmptyBody} ELSE {}}

\* a request is handled to its end
Call(R) == \E r \in R : Serve(r)

\* requests whose handler is followed from its check to its write
FailingWrites ==
  {Request("/api/auth", "POST /register", <<>>, NoId, b, EmptyBody, FALSE) :
     b \in {[email |-> "a@x", password |-> "pw1"]}}
    \cup UNION {{Request(StoreMount(t), "DELETE /:id", h, id, EmptyBody, EmptyBody, FALSE) :
                   h \in Callers, id \in FirstId} : t \in Tables}
    \cup UNION {{Request(StoreMount(t), "PUT /:id", h, id, b, EmptyBody, FALSE) :
                   h \in Callers, id \in FirstId, b \in PageEdits(t, <<>>)} : t \in Tables}

\* the write of a handler that passed its check fails: its catch block answers
HandlerWriteFails ==
  \E h \in handlers :
    /\ ~h.done
    /\ req' = h.req /\ res' = Err(500, CatchMessage(h.name))
    /\ ran' = h.name /\ reqUser' = h.uid
    /\ handlers' = (handlers \ {h}) \cup
         {[h EXCEPT !.done = TRUE, !.threw = TRUE, !.res = Err(500, CatchMessage(h.name))]}
    /\ UNCHANGED db

NextFail ==
  \/ \E fail \in BOOLEAN : Call(AuthRequests(<<>>, fail)) /\ UNCHANGED clientVars
  \/ \E h \in Callers, fail \in BOOLEAN :
       Call(ContentRequests("notes", h, fail)) /\ UNCHANGED clientVars
  \/ \E h \in Callers, fail \in BOOLEAN :
       Call(ContentRequests("tasks", h, fail)) /\ UNCHANGED clientVars
  \/ \E h \in Callers, fail \in BOOLEAN :
       Call(ContentRequests("ideas", h, fail)) /\ UNCHANGED clientVars
  \/ \E h \in Callers, fail \in BOOLEAN :
       Call({Request("/api/auth", "GET /profile", h, NoId, EmptyBody, EmptyBody, fail)})
         /\ UNCHANGED clientVars
  \/ handlers = {} /\ HandlerChecks(FailingWrites) /\ UNCHANGED clientVars
  \/ HandlerWrites /\ UNCHANGED clientVars
  \/ HandlerWriteFails /\ UNCHANGED clientVars

SpecFail == Init /\ [][NextFail]_vars

\* the handler answers the request before it calls the database: a required
\* field is missing or empty
AnswersUnasked(name, r) ==
  CASE name \in {"register", "login"} ->
         ~TruthyStr(r.body, "email") \/ ~TruthyStr(r.body, "password")
    [] name \in CreateHandlers ->
         \E t \in TableOf(r) : \E f \in RequiredFields(t) : ~TruthyStr(r.body, f)
    [] name \in BulkHandlers -> \E t \in TableOf(r) : ~HasRecords(r.body, t)
    [] name = "searchIdeas" -> ~TruthyStr(r.query, "query")
    [] OTHER -> FALSE

\* a response body is the success payload or {error: message}
OneBody(r) ==
  /\ r.status \in {200, 201, 400, 401, 404, 500}
  /\ Ok(r) <=> r.error = ""
  /\ ~Ok(r) => r = Err(r.status, r.error)

C24_Step ==
  /\ ran' # "none" => OneBody(res')
  /\ ran' # "none" /\ req'.fail /\ ~AnswersUnasked(ran', req') => res'.status = 500
  /\ \A h \in handlers' : h.done => OneBody(h.res)
  /\ \A h \in handlers' : h.done /\ h.threw => h.res.status = 500
  /\ \A h \in handlers' : ~h.done => h.res = Err(0, "")
  /\ \A h \in handlers : h.done => h \in handlers'

\* C24: every request to an auth or content handler receives exactly one
\* response, whose body is either the success payload or {error: message}; a
\* failure of any database call inside a handler is answered with status 500
\* and never propagates out of the handler.
C24_OneResponseFailureIs500 == [][C24_Step]_vars

\* a handler whose check passed and whose write failed has answered 500, after
\* a request whose first database call failed was answered 500
C24_Witness ==
  /\ \E h \in handlers : h.done /\ h.threw /\ h.res.status = 500
  /\ req.fail /\ res.status = 500

----------------------------------------------------------------------------
\* Create and BulkImport of the same record (SpecSame)

\* the body of POST /sync that holds the one record b
OneRecord(t, b) == [f \in {t} |-> <<b>>]

NextSame ==
  \/ Register(SignUps) /\ UNCHANGED clientVars
  \/ \E t \in Tables :
       Create(StoreMount(t), Callers, CreateBodies(t)) /\ UNCHANGED clientVars
  \/ \E t \in Tables :
       BulkImport(StoreMount(t), Callers, {OneRecord(t, b) : b \in CreateBodies(t)})
         /\ UNCHANGED clientVars

SpecSame == Init /\ [][NextSame]_vars

\* rows c and k of table t have the same content and the same owner
SameContent(t, c, k) ==
  /\ c.userId = k.userId
  /\ \A f \in ContentFields(t) : c[f] = k[f]

\* the rows the request r would store if it were handled now
WouldStore(t, r) == {o.db[t] \ db[t] : o \in {x \in app(db, r) : Ok(x.res)}}

C25_Step ==
  \A t \in TableOf(req') :
    LET stored == db'[t] \ db[t] IN
    /\ ran' \in CreateHandlers /\ Ok(res') /\ stored # {} =>
         LET bulk == WouldStore(t, [req' EXCEPT !.route = "POST /sync",
                                                !.body = OneRecord(t, req'.body)])
         IN /\ bulk # {}
            /\ \A rows \in bulk :
                 /\ Cardinality(rows) = 1
                 /\ \A c \in stored, k \in rows : SameContent(t, c, k)
    /\ ran' \in BulkHandlers /\ Ok(res') /\ stored # {} =>
         LET one == WouldStore(t, [req' EXCEPT !.route = "POST /",
                                               !.body = req'.body[t][1]])
         IN \A rows \in one : \A c \in rows, k \in stored : SameContent(t, c, k)

\* C25: for every record r that Create accepts, the row stored by BulkImport
\* of the one-element array [r] has the same content fields, including the
\* same defaults for omitted optional fields, and the same owner id as the
\* row stored by Create(r) for the same caller.
C25_BulkImportStoresAsCreate == [][C25_Step]_vars

\* an idea sent without category and tags was imported and stored with the
\* defaults
C25_Witness ==
  /\ ran = "bulkCreateIdeas" /\ Ok(res)
  /\ ~Has(req.body.ideas[1], "category")
  /\ \E x \in db.ideas : x.category = "general" /\ x.tags = <<>>

----------------------------------------------------------------------------
\* The stored token (SpecRegister)

\* C26: in every reachable client state, isAuthenticated is true exactly when
\* a bearer token is stored under the key the request interceptor reads
\* (znote_token), so every request sent while isAuthenticated is true carries
\* an Authorization header; this holds after register, login, logout and
\* after the response interceptor has handled a 401 response.
C26_AuthenticatedIffTokenStored ==
  /\ auth.isAuthenticated <=> lsToken # NoToken
  /\ \A c \in flight : auth.isAuthenticated /\ ~c.answered => c.req.hdr # <<>>

----------------------------------------------------------------------------
\* Identifiers of the local lists (SpecStores)

\* no identifier occurs twice in the list
DistinctIds(list) == \A i, j \in 1..Len(list) : list[i].id = list[j].id => i = j

\* C27: in every reachable state of a content store, no two records of the
\* local list have the same identifier, including when an authenticated Fetch
\* and an authenticated Add are in flight at the same time and their
\* responses arrive in either order.
C27_LocalIdsDistinct == \A t \in Tables : DistinctIds(StoreList(t))

----------------------------------------------------------------------------
\* The loading flags (SpecStores)

\* C28: in each content store, loading is true whenever at least one API
\* request issued by that store is still in flight, and false when none is,
\* including when two authenticated operations of the same store overlap.
C28_LoadingIffInFlight ==
  \A t \in Tables : loading[t] <=> \E c \in flight : c.store = t

----------------------------------------------------------------------------
\* Order of the imports (SpecRegister)

C29_Step ==
  /\ \A c \in Leaving :
       IsSync(c.req) =>
         /\ \E p \in flight :
              /\ p.answered /\ Ok(p.res)
              /\ p.op \in {"register"} \cup Tables
              /\ Pos(p.op) < Pos(c.op)
              /\ \A t \in Tables :
                   Pos(p.op) < Pos(t) /\ Pos(t) < Pos(c.op) => Len(p.guestData[t]) = 0
         /\ lsToken' # NoToken
         /\ lsToken' = auth'.token
         /\ c.req.hdr = Bearer(lsToken')
  /\ (\E p \in flight : p.answered /\ ~Ok(p.res)) => Leaving = {}

\* C29: during Register the bulk imports are issued strictly in the order
\* notes, tasks, ideas, each only after the previous one has responded
\* successfully and only after the token has been stored for the request
\* interceptor; after the first failing import no further import is issued.
C29_ImportsInOrder == [][C29_Step]_vars

\* register has imported notes and tasks and has sent the ideas, after an
\* earlier register that ended when its import of the tasks failed
C29_Witness ==
  /\ \E c \in flight :
       /\ c.op = "ideas" /\ ~c.answered
       /\ Len(c.guestData.notes) > 0 /\ Len(c.guestData.tasks) > 0
  /\ Cardinality(db.users) = 2
  /\ Cardinality(db.notes) = 2 /\ Cardinality(db.tasks) = 1

----------------------------------------------------------------------------
\* The auth store (SpecAuthStore)

\* a getProfile that stores whatever the response holds, failed or not
useAuthStore_getProfileUnchecked ==
  \E fail \in BOOLEAN :
    \E a \in Api(db, lsToken,
                 Request("/api/auth", "GET /profile", <<>>, NoId, EmptyBody, EmptyBody, fail)) :
      /\ Answer(a)
      /\ auth' = [auth EXCEPT !.user = a.res.user]
      /\ result' = Succeeded("getProfile")
      /\ UNCHANGED <<cNotes, cTasks, cIdeas, cnow, kept, loading, error, flight>>

\* useAuthStore.getProfile
useAuthStore_getProfile ==
  \E fail \in BOOLEAN :
    \E a \in Api(db, lsToken,
                 Request("/api/auth", "GET /profile", <<>>, NoId, EmptyBody, EmptyBody, fail)) :
      /\ Answer(a)
      /\ auth' = IF Ok(a.res) THEN [auth EXCEPT !.user = a.res.user] ELSE auth
      /\ result' = IF Ok(a.res) THEN Succeeded("getProfile")
                   ELSE Failed("getProfile", "Failed to fetch profile")
      /\ UNCHANGED <<cNotes, cTasks, cIdeas, cnow, kept, loading, error, flight>>

\* users and tokens setAuthenticated is called with: a registered user's, and
\* those of a user the server does not know
GivenUsers ==
  {[id |-> 1, email |-> "a@x", name |-> Null], [id |-> 9, email |-> "z@x", name |-> "Z"]}

\* useAuthStore.setAuthenticated(user, token)
useAuthStore_setAuthenticated(U) ==
  \E user \in U, signed \in U :
    /\ auth' = [user |-> user, token |-> jwtSign(signed), isAuthenticated |-> TRUE,
                isGuest |-> FALSE]
    /\ lsToken' = jwtSign(signed)
    /\ result' = Succeeded("setAuthenticated")
    /\ UNCHANGED <<serverVars, cNotes, cTasks, cIdeas, cnow, kept, loading, error, flight>>

NextAuthStore ==
  \/ useNotesStore_addNote(NoteForms) /\ Handled
  \/ handleSubmit_register(RegisterForms, FailAt) /\ Handled
  \/ handleSubmit_login(LoginForms) /\ Handled
  \/ handleLogout /\ Handled
  \/ useAuthStore_getProfile /\ Handled
  \/ useAuthStore_setAuthenticated(GivenUsers) /\ Handled

SpecAuthStore == Init /\ [][NextAuthStore]_vars

\* C30: in every state of the auth store reachable by any sequence of
\* register, login, logout, getProfile and setAuthenticated (called with a
\* non-null user and token), isGuest is the negation of isAuthenticated, and
\* user and token are both non-null exactly when isAuthenticated is true.
C30_AuthStoreConsistent ==
  /\ auth.isGuest = ~auth.isAuthenticated
  /\ auth.isAuthenticated <=> auth.user # NoUser /\ auth.token # NoToken
  /\ ~auth.isAuthenticated => auth.user = NoUser /\ auth.token = NoToken

\* getProfile has answered 200 in an authenticated session and its user is
\* the one now held
C30_Witness ==
  /\ result.op = "getProfile" /\ result.success
  /\ auth.isAuthenticated
  /\ auth.user.id = auth.token.userId
  /\ auth.user.id \in {u.id : u \in db.users}

====
